---- MODULE Spec2Model ----
(***************************************************************************)
(* A model of the restaking-data ingestion pipeline:                       *)
(*   - DataFetcher.retryOperation (utils/dataFetcher.js)                   *)
(*   - DatabasePopulator (scripts/fetchData.js)                            *)
(*   - the Reward / Validator / Restaker documents (models/*.js)           *)
(***************************************************************************)
EXTENDS Integers, Sequences, FiniteSets, TLC

(***************************************************************************)
(* Bounds of the model.                                                    *)
(***************************************************************************)
\* largest maxRetries tried by SpecRetry
MaxAttempts == 4
\* processes (runs of the script) in one behaviour
MaxRuns == 2
\* failures the environment may inject in a behaviour of Spec / SpecRerun
MaxFaults == 3
MaxRerunFaults == 1
\* items per upstream result set
MaxDelegations == 2
MaxStakers == 1
MaxDeposits == 1
MaxOperators == 2
MaxSlashings == 1
MaxRewardItems == 1
\* records the mock generators are asked for (20 and 10 in the script)
MockRestakerCount == 1
MockValidatorCount == 1
\* calls of addReward
MaxCalls == 2
\* the digits of an amount handed to toWei, as a number
MaxDigits == 120
\* items of a payload handed to a transform method of DataFetcher
MaxBatch == 2

(***************************************************************************)
(* Program constants.                                                      *)
(***************************************************************************)
\* this.maxRetries = parseInt(process.env.MAX_RETRIES) || 3
DefaultMaxRetries == 3
\* this.retryDelay = parseInt(process.env.RETRY_DELAY_MS) || 5000
DefaultRetryDelay == 5000

\* errors an operation can raise, and values it can return
Errors == {"ETIMEDOUT", "ECONNREFUSED"}
Values == {"v1", "v2"}
\* configured RETRY_DELAY_MS values
RetryDelays == {1000, DefaultRetryDelay}


(***************************************************************************)
(* Addresses, amounts and the upstream payloads the model draws from.      *)
(***************************************************************************)
\* delegator / wallet addresses
Users == {"0xaaaa000000000000000000000000000000000001",
          "0xaaaa000000000000000000000000000000000002"}
\* operator addresses: the first two entries of mockOperators, which the
\* upstream may report as well
Operators == {"0x1234567890123456789012345678901234567890",
              "0x2345678901234567890123456789012345678901"}
ZeroAddress == "0x0000000000000000000000000000000000000000"

VARIABLES
  \* ---- retryOperation ----
  maxRetries,   \* the maxRetries parameter
  retryDelay,   \* this.retryDelay
  attempt,      \* the loop variable
  rpc,          \* "idle" | "call" | "wait" | "returned" | "threw"
  results,      \* one entry per invocation of operation, in order
  waits,        \* the delays awaited so far, in order (ms)
  outcome,      \* what retryOperation returned or threw
  \* ---- the persisted store ----
  Restaker,     \* collection "restakers": userAddress -> document
  Validator,    \* collection "validators": operatorAddress -> document
  Reward,       \* collection "rewards": walletAddress -> document
  \* ---- DatabasePopulator / main ----
  pc,           \* "idle" | the method being run | "exited"
  step,         \* "fetch" | "loop" | "save" inside the method
  useMockData,  \* this.useMockData
  items,        \* the sequence the method's for-loop iterates
  idx,          \* position of the loop in items
  rewardData,   \* the local rewardData of populateRewards
  fetched,      \* how the current wallet's rewardData was asked for
  exitCode,     \* {} while the process runs, then {code}
  clock,        \* Date.now(), in days
  \* ---- what a run has logged ----
  runs,         \* number of runs started
  started,      \* the stages entered by the current run, in order
  completed,    \* "Full database update completed successfully!" was logged
  fatal,        \* the stage whose error reached runFullUpdate's catch
  saveErrors,   \* the stages that logged a per-record error in the current run
  statsError,   \* "Error updating statistics" was logged
  walletLog,    \* per wallet of the rewards loop: "saved"|"skipped"|"failed"
  prev,         \* the store a completed run over the same upstream data left
  \* ---- the environment ----
  upstream,     \* the data set the upstream services hold, or Unfixed
  faults,       \* failures the environment has injected so far
  limits,       \* [runs, faults]: how many of each a behaviour may have
  \* ---- the model methods, called on a loaded document ----
  call          \* the last call: its arguments, the document, the outcome

retryVars == <<maxRetries, retryDelay, attempt, rpc, results, waits, outcome>>

storeVars == <<Restaker, Validator, Reward>>

rewardVars == <<rewardData, fetched>>

procVars == <<pc, step, useMockData, items, idx, rewardVars, exitCode, clock>>

logVars ==
  <<runs, started, completed, fatal, saveErrors, statsError, walletLog, prev>>

envVars == <<upstream, limits, call>>

pipeVars == <<storeVars, procVars, logVars, envVars, faults>>

vars == <<retryVars, pipeVars>>

NoOutcome == [kind |-> "none", val |-> "none"]

(***************************************************************************)
(* DataFetcher.retryOperation                                              *)
(***************************************************************************)
\* for (let attempt = 1; attempt <= maxRetries; attempt++)
LoopCond(a, m) == a <= m

\* no attempt is the last one
IsLastAttemptNever(a, m) == FALSE

\* if (attempt === maxRetries) throw error;
IsLastAttempt(a, m) == a = m

\* a wrapper error instead of the error that was caught
ThrownWrapped(e) == "RetryError"

\* throw error;   (the caught error itself)
Thrown(e) == e

\* a constant delay instead of a linear one
BackoffConstant(base, a) == base

\* this.retryDelay * attempt
Backoff(base, a) == base * a

\* retryOperation is entered: attempt = 1
RetryEnter(m, d) ==
  /\ maxRetries' = m
  /\ retryDelay' = d
  /\ attempt' = 1
  /\ rpc' = "call"
  /\ results' = <<>>
  /\ waits' = <<>>
  /\ outcome' = NoOutcome

\* return await operation();   operation resolves with r
RetryCallOk(r) ==
  /\ rpc = "call"
  /\ LoopCond(attempt, maxRetries)
  /\ rpc' = "returned"
  /\ results' = Append(results, [ok |-> TRUE, val |-> r])
  /\ outcome' = [kind |-> "return", val |-> r]
  /\ UNCHANGED <<maxRetries, retryDelay, attempt, waits>>

\* operation rejects with e: the catch block
RetryCallFail(e) ==
  /\ rpc = "call"
  /\ LoopCond(attempt, maxRetries)
  /\ IF IsLastAttempt(attempt, maxRetries)
       THEN /\ rpc' = "threw"
            /\ outcome' = [kind |-> "throw", val |-> Thrown(e)]
       ELSE /\ rpc' = "wait"
            /\ outcome' = outcome
  /\ results' = Append(results, [ok |-> FALSE, val |-> e])
  /\ UNCHANGED <<maxRetries, retryDelay, attempt, waits>>

\* await this.delay(this.retryDelay * attempt); attempt++
RetryDelay ==
  /\ rpc = "wait"
  /\ waits' = Append(waits, Backoff(retryDelay, attempt))
  /\ attempt' = attempt + 1
  /\ rpc' = "call"
  /\ UNCHANGED <<maxRetries, retryDelay, results, outcome>>

\* the loop condition is false: the function falls off its end
RetryLoopExit ==
  /\ rpc = "call"
  /\ ~LoopCond(attempt, maxRetries)
  /\ rpc' = "returned"
  /\ outcome' = [kind |-> "return", val |-> "undefined"]
  /\ UNCHANGED <<maxRetries, retryDelay, attempt, results, waits>>

(***************************************************************************)
(* Amount strings.                                                         *)
(* A decimal string is [n, k]: the numeral of n / 10^k written with        *)
(* exactly k fractional digits ("10.50" is [1050, 2], "0.1" is [1, 1]).    *)
(* A base-unit (wei) string is [n, z]: the numeral of n followed by z      *)
(* zeros ("100000000000000000" is [1, 17]); NotANumber is a string that    *)
(* is no number.                                                           *)
(***************************************************************************)
Dec(n, k) == [n |-> n, k |-> k]

Wei(n, z) == [n |-> n, z |-> z]

NotANumber == [nan |-> TRUE]

IsWei(w) == DOMAIN w = {"n", "z"}

RECURSIVE Pow10(_)
Pow10(e) == IF e = 0 THEN 1 ELSE 10 * Pow10(e - 1)

\* drop the trailing zeros of the fraction: "1.50" -> "1.5", "2.0" -> "2"
RECURSIVE StripZeros(_)
StripZeros(d) ==
  IF d.k > 0 /\ d.n % 10 = 0 THEN StripZeros(Dec(d.n \div 10, d.k - 1)) ELSE d

\* the "ether" unit of web3.utils: 10^18 base units
EtherDecimals == 18

\* a conversion that drops the last fractional digit
ToWeiTruncated(d) ==
  IF d.k > 0
    THEN Wei(d.n \div 10, EtherDecimals - d.k + 1)
    ELSE Wei(d.n, EtherDecimals)

\* web3.utils.toWei(d, "ether") of a decimal string with at most 18
\* fractional digits: the decimal point goes and the digits are followed by
\* the zeros that make up 18 fractional places
ToWei(d) == Wei(d.n, EtherDecimals - d.k)

\* web3.utils.fromWei(w, "ether"): the decimal point moves 18 places left
\* and the trailing zeros of the fraction go
FromWei(w) ==
  IF w.z >= EtherDecimals
    THEN Dec(w.n * Pow10(w.z - EtherDecimals), 0)
    ELSE StripZeros(Dec(w.n, EtherDecimals - w.z))

(***************************************************************************)
(* parseFloat, + and toString on amount strings.                           *)
(* A positive binary64 number is [e, m]: m its 53 significand bits, the    *)
(* most significant (a 1) first, and e the power of two of m[1]; zero has  *)
(* no bits.  The string toString gives for a double that is next to, but   *)
(* not the nearest double of, the decimal near is [near, double].          *)
(***************************************************************************)
\* the bits of the significand of a Number
Significand == 53

Zero == [e |-> 0, m |-> <<>>]

IsDec(s) == DOMAIN s = {"n", "k"}

\* the binary digits of the integer n, most significant first
RECURSIVE IntBits(_)
IntBits(n) == IF n = 0 THEN <<>> ELSE Append(IntBits(n \div 2), n % 2)

\* the first c binary digits of the fraction r / d, 0 <= r < d
RECURSIVE FracBits(_, _, _)
FracBits(r, d, c) ==
  IF c = 0 THEN <<>>
  ELSE <<(2 * r) \div d>> \o FracBits((2 * r) % d, d, c - 1)

\* what those c digits leave of r / d: (r * 2^c) mod d
RECURSIVE FracRest(_, _, _)
FracRest(r, d, c) == IF c = 0 THEN r ELSE FracRest((2 * r) % d, d, c - 1)

\* the zeros before the first 1 of the fraction r / d, 0 < r < d
RECURSIVE LeadingZeros(_, _)
LeadingZeros(r, d) == IF 2 * r >= d THEN 0 ELSE 1 + LeadingZeros(2 * r, d)

\* bits + 1 in the last place; a carry out makes the result one bit longer
Increment(bits) ==
  LET n == Len(bits)
      z == CHOOSE i \in 1..n : bits[i] = 0 /\ \A j \in (i + 1)..n : bits[j] = 1
  IN  IF \A i \in 1..n : bits[i] = 1 THEN <<1>> \o [i \in 1..n |-> 0]
      ELSE [i \in 1..n |-> IF i < z THEN bits[i] ELSE IF i = z THEN 1 ELSE 0]

Zeros(n) == [i \in 1..n |-> 0]

\* round to nearest, ties to even: bits start with a 1 of weight 2^e, and
\* sticky tells that something nonzero follows them
RoundToDouble(bits, e, sticky) ==
  IF Len(bits) <= Significand
    THEN [e |-> e, m |-> bits \o Zeros(Significand - Len(bits))]
    ELSE LET m == SubSeq(bits, 1, Significand)
             half == bits[Significand + 1] = 1
             rest == sticky \/ \E i \in (Significand + 2)..Len(bits) : bits[i] = 1
             up == half /\ (rest \/ m[Significand] = 1)
             inc == Increment(m)
         IN  IF ~up THEN [e |-> e, m |-> m]
             ELSE IF Len(inc) > Significand
               THEN [e |-> e + 1, m |-> SubSeq(inc, 1, Significand)]
             ELSE [e |-> e, m |-> inc]

\* parseFloat of the decimal numeral dec: the double nearest to n / 10^k
ToDouble(dec) ==
  LET d == Pow10(dec.k)
      ip == dec.n \div d
      r == dec.n % d
      ib == IntBits(ip)
      c == Significand + 1 - Len(ib)
      z == LeadingZeros(r, d)
      r0 == FracRest(r, d, z)
  IN  IF dec.n = 0 THEN Zero
      ELSE IF ip > 0
        THEN RoundToDouble(ib \o FracBits(r, d, c), Len(ib) - 1,
                           FracRest(r, d, c) # 0)
      ELSE RoundToDouble(FracBits(r0, d, Significand + 1), 0 - (z + 1),
                         FracRest(r0, d, Significand + 1) # 0)

\* a + b for bit strings of one length, most significant bit first: the
\* carry into place i comes from the nearest place below it where both bits
\* are 1, through places where exactly one is
AddBits(a, b) ==
  LET n == Len(a)
      Carry(i) == \E j \in (i + 1)..n :
                    /\ a[j] = 1 /\ b[j] = 1
                    /\ \A k \in (i + 1)..(j - 1) : a[k] + b[k] = 1
      bits == [i \in 1..n |-> (a[i] + b[i] + (IF Carry(i) THEN 1 ELSE 0)) % 2]
  IN  IF Carry(0) THEN <<1>> \o bits ELSE bits

\* x + y of two doubles
FloatAdd(x, y) ==
  IF x = Zero THEN y
  ELSE IF y = Zero THEN x
  ELSE LET top == IF x.e > y.e THEN x.e ELSE y.e
           low == (IF x.e < y.e THEN x.e ELSE y.e) - (Significand - 1)
           X == Zeros(top - x.e) \o x.m \o Zeros(x.e - (Significand - 1) - low)
           Y == Zeros(top - y.e) \o y.m \o Zeros(y.e - (Significand - 1) - low)
           sum == AddBits(X, Y)
       IN  RoundToDouble(sum, low + Len(sum) - 1, FALSE)

\* parseFloat(s)
ParseFloat(s) == IF IsDec(s) THEN ToDouble(s) ELSE s.double

\* the decimal a string stands next to
Near(s) == IF IsDec(s) THEN s ELSE s.near

\* the sum of two decimals, as a decimal
DecSum(x, y) ==
  LET k == IF x.k > y.k THEN x.k ELSE y.k
  IN  Dec(x.n * Pow10(k - x.k) + y.n * Pow10(k - y.k), k)

\* d.toString(): the shortest numeral that parses to d, which is the numeral
\* of near when d is the double nearest to near
DoubleToString(d, near) ==
  IF d = ToDouble(near) THEN StripZeros(near) ELSE [near |-> near, double |-> d]

\* parseFloat(d) > 0
IsPositive(d) == IF IsDec(d) THEN d.n > 0 ELSE d.double # Zero

\* (parseFloat(x) + parseFloat(y)).toString()
ParseFloatSum(x, y) ==
  IF x = NotANumber \/ y = NotANumber THEN NotANumber
  ELSE DoubleToString(FloatAdd(ParseFloat(x), ParseFloat(y)),
                      DecSum(Near(x), Near(y)))

(***************************************************************************)
(* Sequences.                                                              *)
(***************************************************************************)
\* seq.filter(Keep).map(F)
MapFilter(seq, Keep(_), F(_)) ==
  LET RECURSIVE Go(_)
      Go(rest) ==
        IF rest = <<>> THEN <<>>
        ELSE IF Keep(Head(rest)) THEN <<F(Head(rest))>> \o Go(Tail(rest))
        ELSE Go(Tail(rest))
  IN  Go(seq)

RECURSIVE Concat(_)
Concat(seqs) == IF seqs = <<>> THEN <<>> ELSE Head(seqs) \o Concat(Tail(seqs))

SeqsUpTo(S, n) == UNION {[1..m -> S] : m \in 0..n}

\* the orderings of a finite set
Orderings(S) ==
  {f \in [1..Cardinality(S) -> S] : \A i, j \in 1..Cardinality(S) : f[i] = f[j] => i = j}

(***************************************************************************)
(* DataFetcher.transformRestakingData                                      *)
(***************************************************************************)
\* the time of the fetch instead of the event's createdAt
DelegationRecordStamped(delegation) ==
  [userAddress |-> delegation.delegator,
   amountRestakedStETH |-> FromWei(delegation.shares),
   targetAVSOperatorAddress |-> delegation.operator,
   delegationTimestamp |-> clock * 1000,
   transactionHash |-> delegation.transactionHash,
   blockNumber |-> delegation.blockNumber,
   status |-> "active"]

\* the body of the try block of data.delegations.forEach
DelegationRecord(delegation) ==
  [userAddress |-> delegation.delegator,
   amountRestakedStETH |-> FromWei(delegation.shares),
   targetAVSOperatorAddress |-> delegation.operator,
   delegationTimestamp |-> delegation.createdAt * 1000,
   transactionHash |-> delegation.transactionHash,
   blockNumber |-> delegation.blockNumber,
   status |-> "active"]

\* strategy ids that contain "steth", and process.env.STETH_STRATEGY_ADDRESS
StethNamedStrategies == {"0xsteth-strategy"}
StethStrategyAddress == "0x93c4b944d05dfe6df7645a86cd2206016c51564d"

\* the filter predicate of staker.deposits.filter
IsStETHDeposit(deposit) ==
  \/ deposit.strategy \in StethNamedStrategies
  \/ deposit.strategy = StethStrategyAddress

\* the body of the try block of stETHDeposits.forEach
DepositRecord(staker, deposit) ==
  [userAddress |-> staker.id,
   amountRestakedStETH |-> FromWei(deposit.shares),
   targetAVSOperatorAddress |-> ZeroAddress,
   delegationTimestamp |-> deposit.createdAt * 1000,
   transactionHash |-> deposit.transactionHash,
   blockNumber |-> deposit.blockNumber,
   status |-> "active"]

\* fromWei throws on a string that is no number; the catch skips the item
ConvertsShares(item) == IsWei(item.shares)

StakerRecords(staker) ==
  LET Keep(dep) == IsStETHDeposit(dep) /\ ConvertsShares(dep)
      Rec(dep) == DepositRecord(staker, dep)
  IN  MapFilter(staker.deposits, Keep, Rec)

\* the first forEach, were an exception to end the whole loop
DelegationRecordsAbort(delegations) ==
  IF \A i \in 1..Len(delegations) : ConvertsShares(delegations[i])
    THEN MapFilter(delegations, ConvertsShares, DelegationRecord)
    ELSE <<>>

\* data.delegations.forEach: the try block of the body is left at a throwing
\* fromWei and the forEach goes on with the next event
DelegationRecords(delegations) ==
  MapFilter(delegations, ConvertsShares, DelegationRecord)

transformRestakingData(data) ==
  LET perStaker == [i \in 1..Len(data.stakers) |-> StakerRecords(data.stakers[i])]
  IN  DelegationRecords(data.delegations) \o Concat(perStaker)

\* staker.deposits.filter(...) is outside the try block: a staker without
\* deposits throws a TypeError that leaves transformRestakingData
RestakingTransformThrows(data) ==
  \E i \in 1..Len(data.stakers) : "deposits" \notin DOMAIN data.stakers[i]

(***************************************************************************)
(* DataFetcher.transformValidatorData                                      *)
(***************************************************************************)
\* the entry pushed on slashingMap.get(slash.operator.id)
SlashEvent(slash) ==
  [timestamp |-> slash.createdAt,
   amountStETH |-> FromWei(slash.amount),
   reason |-> "Protocol violation",
   transactionHash |-> slash.transactionHash,
   blockNumber |-> slash.blockNumber]

\* every slashing of the payload, whichever operator it names
SlashingsOfAny(slashings, id) ==
  LET Keep(slash) == TRUE
  IN  MapFilter(slashings, Keep, SlashEvent)

\* slashingMap.get(id) || []
SlashingsOf(slashings, id) ==
  LET Keep(slash) == slash.operator = id
  IN  MapFilter(slashings, Keep, SlashEvent)

\* the record pushed by data.operators.forEach; now is new Date()
OperatorRecord(operator, slashings, now) ==
  LET slashHistory == SlashingsOf(slashings, operator.id)
  IN  [operatorAddress |-> operator.id,
       totalDelegatedStakeStETH |-> FromWei(operator.totalShares),
       slashHistory |-> slashHistory,
       status |-> IF Len(slashHistory) > 0 THEN "slashed" ELSE "active",
       registrationTimestamp |-> operator.createdAt * 1000,
       lastActivityTimestamp |-> now,
       delegatorCount |-> 0,
       commission |-> 0,
       metadata |-> [metadataURI |-> operator.metadataURI]]

transformValidatorData(data, now) ==
  LET Keep(operator) == IsWei(operator.totalShares)
      Rec(operator) == OperatorRecord(operator, data.slashings, now)
  IN  MapFilter(data.operators, Keep, Rec)

\* data.slashings.forEach has no try block: fromWei throws on an amount
\* that is no number and the exception leaves transformValidatorData
ValidatorTransformThrows(data) ==
  \E i \in 1..Len(data.slashings) : ~IsWei(data.slashings[i].amount)

(***************************************************************************)
(* DataFetcher.transformRatedRewardsData                                   *)
(***************************************************************************)
\* the entry pushed on rewardsBreakdown for one reward item
RatedBreakdown(reward) ==
  [operatorAddress |-> reward.operator,
   amountStETH |-> FromWei(reward.amount),
   timestamps |-> <<reward.timestamp>>,
   transactionHashes |-> <<>>,
   blockNumbers |-> <<>>]

\* totalRewards after the forEach: the running parseFloat sum
RECURSIVE RatedTotal(_, _)
RatedTotal(rewards, totalRewards) ==
  IF rewards = <<>> THEN totalRewards
  ELSE RatedTotal(Tail(rewards),
                  ParseFloatSum(totalRewards, FromWei(Head(rewards).amount)))

\* data.rewards when the body has a rewards array, nothing otherwise
RewardsOf(data) == IF "rewards" \in DOMAIN data THEN data.rewards ELSE <<>>

transformRatedRewardsData(data, walletAddress) ==
  [walletAddress |-> walletAddress,
   totalRewardsReceivedStETH |-> RatedTotal(RewardsOf(data), Dec(0, 0)),
   rewardsBreakdown |->
     [i \in 1..Len(RewardsOf(data)) |-> RatedBreakdown(RewardsOf(data)[i])]]

\* the forEach of transformRatedRewardsData has no try block: fromWei throws
\* on an amount that is no number and the exception leaves the method
RatedTransformThrows(data) ==
  \E i \in 1..Len(RewardsOf(data)) : ~IsWei(RewardsOf(data)[i].amount)

(***************************************************************************)
(* The mock generators of DataFetcher.                                     *)
(***************************************************************************)
\* const mockOperators (its first entries)
mockOperators ==
  <<"0x1234567890123456789012345678901234567890",
    "0x2345678901234567890123456789012345678901",
    "0x3456789012345678901234567890123456789012">>

\* (Math.random() * 1000 + 10).toFixed(2)
MockStakeAmounts == {Dec(2550, 2)}
\* (Math.random() * 50 + 5).toFixed(2)
MockRewardAmounts == {Dec(750, 2)}
\* `0x${Math.random().toString(16).substr(2, 40)}`: "0x" and the hex digits
\* of one random double (about 13, never 40)
MockUserAddresses == {"0x8f3a2c91d4b7e", "0x1c5e9a7b3d2f4"}
MockOperatorAddresses == {"0x6b2d9f4e1a3c8"}
MockTxHash == "0x5f3a9c"

\* one element of generateMockRestakingData
MockRestakers(now) ==
  [userAddress : MockUserAddresses,
   amountRestakedStETH : MockStakeAmounts,
   targetAVSOperatorAddress : {mockOperators[i] : i \in 1..2},
   delegationTimestamp : {now - 1},
   transactionHash : {MockTxHash},
   blockNumber : {18000000},
   status : {"active"}]

generateMockRestakingData(count, now) == [1..count -> MockRestakers(now)]

\* const statuses, const operatorNames
statuses == <<"active", "active", "active", "jailed", "slashed">>
operatorNames == <<"EigenOp1", "ValidatorPro", "StakeSecure", "EthGuard", "RestakeMax">>

\* element i (from 0) of generateMockValidatorData
MockValidators(i, now) ==
  LET status == IF i + 1 <= Len(statuses) THEN statuses[i + 1] ELSE "active"
      name == IF i + 1 <= Len(operatorNames) THEN operatorNames[i + 1] ELSE "Operator"
      slashHistory ==
        IF status = "slashed"
          THEN <<[timestamp |-> now - 1, amountStETH |-> Dec(1500, 2),
                  reason |-> "Protocol violation detected",
                  transactionHash |-> MockTxHash, blockNumber |-> 18000000]>>
          ELSE <<>>
  IN  [operatorAddress : MockOperatorAddresses,
       operatorName : {name},
       totalDelegatedStakeStETH : {Dec(500000, 2)},
       slashHistory : {slashHistory},
       status : {status},
       registrationTimestamp : {now - 2},
       lastActivityTimestamp : {now - 1},
       delegatorCount : {10},
       commission : {5},
       metadata : {[website |-> "https://" \o name \o ".com",
                    description |-> "Professional EigenLayer operator",
                    logo |-> "https://example.com/logos/" \o name \o ".png"]}]

generateMockValidatorData(count, now) ==
  {f \in [1..count -> UNION {MockValidators(i, now) : i \in 0..(count - 1)}] :
     \A i \in 1..count : f[i] \in MockValidators(i - 1, now)}

\* rewardsBreakdown.reduce(sum + parseFloat(amountStETH), 0).toFixed(2)
RECURSIVE MockTotal(_)
MockTotal(breakdown) ==
  IF breakdown = <<>> THEN Dec(0, 2)
  ELSE LET rest == MockTotal(Tail(breakdown))
       IN  Dec(rest.n + Head(breakdown).amountStETH.n, 2)

generateMockRewardsData(walletAddress, now) ==
  {[walletAddress |-> walletAddress,
    totalRewardsReceivedStETH |-> MockTotal(breakdown),
    rewardsBreakdown |-> breakdown] :
   breakdown \in
     {f \in [1..Len(mockOperators) ->
               [operatorAddress : {mockOperators[i] : i \in 1..Len(mockOperators)},
                amountStETH : MockRewardAmounts,
                timestamps : {<<now - 1, now - 2, now - 3>>},
                transactionHashes : {<<MockTxHash, MockTxHash, MockTxHash>>},
                blockNumbers : {<<18000000, 18000000, 18000000>>}]] :
        \A i \in 1..Len(mockOperators) : f[i].operatorAddress = mockOperators[i]}}

(***************************************************************************)
(* Model.findOneAndUpdate(filter, update, { upsert: true, new: true })     *)
(* An update without operators is sent as $set: every path of the update   *)
(* is set, every other path of a matched document stays; without a match   *)
(* the document is inserted with the schema defaults.                      *)
(***************************************************************************)
SetPaths(old, update) ==
  [f \in DOMAIN old \cup DOMAIN update |->
     IF f \in DOMAIN update THEN update[f] ELSE old[f]]

\* the matched document is replaced by a fresh one made of the update
FindOneAndUpdateReplace(coll, key, update, defaults) ==
  [k \in DOMAIN coll \cup {key} |->
     IF k # key THEN coll[k] ELSE SetPaths(defaults, update)]

\* a matched document is left as it is ($setOnInsert)
FindOneAndUpdateKeep(coll, key, update, defaults) ==
  [k \in DOMAIN coll \cup {key} |->
     IF k \in DOMAIN coll THEN coll[k] ELSE SetPaths(defaults, update)]

FindOneAndUpdate(coll, key, update, defaults) ==
  [k \in DOMAIN coll \cup {key} |->
     IF k # key THEN coll[k]
     ELSE IF key \in DOMAIN coll THEN SetPaths(coll[key], update)
     ELSE SetPaths(defaults, update)]

\* the paths of metadata the validator schema declares (strict mode drops
\* the others)
MetadataPaths == {"website", "description", "logo"}

CastValidator(doc) ==
  [doc EXCEPT !.metadata =
     [f \in DOMAIN doc.metadata \cap MetadataPaths |-> doc.metadata[f]]]

\* schema defaults applied on insert
RestakerDefaults(now) == [status |-> "active", lastUpdated |-> now]

ValidatorDefaults(now) ==
  [status |-> "active", commission |-> 0, delegatorCount |-> 0,
   lastUpdated |-> now]

\* JavaScript's null
Null == [null |-> TRUE]

RewardDefaults(now) ==
  [totalRewardsReceivedStETH |-> Dec(0, 0),
   firstRewardTimestamp |-> Null,
   lastRewardTimestamp |-> Null,
   totalRewardEvents |-> 0,
   averageRewardAmount |-> Dec(0, 0),
   rewardFrequency |->
     [dailyAverage |-> Dec(0, 0), weeklyAverage |-> Dec(0, 0),
      monthlyAverage |-> Dec(0, 0)],
   lastUpdated |-> now]

\* Restaker.countDocuments({ targetAVSOperatorAddress: operatorAddress })
CountDelegators(restakers, operatorAddress) ==
  Cardinality({u \in DOMAIN restakers :
                 restakers[u].targetAVSOperatorAddress = operatorAddress})

(***************************************************************************)
(* What the upstream services may answer.                                  *)
(***************************************************************************)
UpstreamTxHash ==
  "0x9b1d4e6f8a0c2e4b6d8f0a1c3e5b7d9f1a2c4e6b8d0f2a3c5e7b9d1f3a4c6e80"

DelegationEvents ==
  [delegator : Users, operator : Operators, shares : {Wei(1, 17)},
   createdAt : {1700}, transactionHash : {UpstreamTxHash},
   blockNumber : {18500000}]

DepositEvents ==
  [strategy : {StethStrategyAddress, "0xother-strategy"},
   shares : {Wei(2, 18)}, createdAt : {1700},
   transactionHash : {UpstreamTxHash}, blockNumber : {18500000}]

StakerEvents == [id : Users, deposits : SeqsUpTo(DepositEvents, MaxDeposits)]

RestakingPayloads ==
  [delegations : SeqsUpTo(DelegationEvents, MaxDelegations),
   stakers : SeqsUpTo(StakerEvents, MaxStakers)]

OperatorItems ==
  [id : Operators, totalShares : {Wei(5, 18)}, createdAt : {1600},
   metadataURI : {"ipfs://operator"}]

SlashingItems ==
  [operator : Operators, amount : {Wei(1, 18)}, createdAt : {1650},
   transactionHash : {UpstreamTxHash}, blockNumber : {18400000}]

ValidatorPayloads ==
  [operators : SeqsUpTo(OperatorItems, MaxOperators),
   slashings : SeqsUpTo(SlashingItems, MaxSlashings)]

RewardItems ==
  [amount : {Wei(0, 0), Wei(1, 17), Wei(2, 17)}, operator : Operators,
   timestamp : {1690}]

RatedPayloads == [rewards : SeqsUpTo(RewardItems, MaxRewardItems)]

NoData == [none |-> TRUE]

NoPrev == [ok |-> FALSE]

\* the upstream answers are not held fixed
Unfixed == [any |-> TRUE]

\* the try block of the rewards loop has asked for nothing yet
NotFetched == [client |-> 0, absent |-> FALSE, mock |-> 0]

(***************************************************************************)
(* DatabasePopulator.runFullUpdate and main                                *)
(***************************************************************************)
RetryReset ==
  /\ rpc' = "idle"
  /\ attempt' = 0
  /\ results' = <<>>
  /\ waits' = <<>>
  /\ outcome' = NoOutcome
  /\ UNCHANGED <<maxRetries, retryDelay>>

\* the order of the awaits of runFullUpdate, swapped
NextStageSwapped(s) ==
  CASE s = "populateRestakers" -> "populateRewards"
    [] s = "populateRewards" -> "populateValidators"
    [] s = "populateValidators" -> "updateStatistics"
    [] OTHER -> "exited"

\* the order of the awaits of runFullUpdate
NextStage(s) ==
  CASE s = "populateRestakers" -> "populateValidators"
    [] s = "populateValidators" -> "populateRewards"
    [] s = "populateRewards" -> "updateStatistics"
    [] OTHER -> "exited"

\* a catch block that logs and does not rethrow
RethrowsNever(s) == FALSE

\* every catch block ends in throw error
RethrowsAlways(s) == TRUE

\* the catch blocks of the populate methods end in throw error
Rethrows(s) == s \in {"populateRestakers", "populateValidators", "populateRewards"}

\* process.exit(1) in the catch of runFullUpdate
FatalExitCode == 1

EnterStage(s) ==
  /\ pc' = s
  /\ step' = "fetch"
  /\ items' = <<>>
  /\ idx' = 0
  /\ started' = Append(started, s)

\* the method pc returned: runFullUpdate goes on, and after the last stage
\* logs the completion; main then exits with 0
StageReturns ==
  IF NextStage(pc) = "exited"
    THEN /\ pc' = "exited"
         /\ step' = "fetch"
         /\ items' = <<>>
         /\ idx' = 0
         /\ completed' = TRUE
         /\ exitCode' = {0}
         /\ UNCHANGED started
    ELSE /\ EnterStage(NextStage(pc))
         /\ UNCHANGED <<completed, exitCode>>

\* the method pc threw: the catch of runFullUpdate exits the process
StageThrows ==
  /\ pc' = "exited"
  /\ step' = "fetch"
  /\ items' = <<>>
  /\ idx' = 0
  /\ exitCode' = {FatalExitCode}
  /\ fatal' = pc
  /\ UNCHANGED <<started, completed>>

\* an error reached the outer catch of the method pc
StageCatches ==
  IF Rethrows(pc)
    THEN StageThrows
    ELSE StageReturns /\ UNCHANGED fatal

\* the environment injects one more failure, as long as the behaviour's
\* allowance lasts
Fault ==
  /\ faults < limits.faults
  /\ faults' = faults + 1

\* a process starts: new DatabasePopulator(), runFullUpdate(), connectDB()
StartRun(mock) ==
  /\ pc \in {"idle", "exited"}
  /\ runs < limits.runs
  /\ runs' = runs + 1
  /\ clock' = clock + 1
  /\ useMockData' = mock
  /\ prev' = IF upstream # Unfixed /\ runs > 0 /\ ~useMockData /\ completed
               THEN [ok |-> TRUE, Restaker |-> Restaker, Validator |-> Validator,
                     Reward |-> Reward, saveErrors |-> saveErrors]
               ELSE NoPrev
  /\ started' = <<>>
  /\ pc' = "connectDB"
  /\ step' = "fetch"
  /\ items' = <<>>
  /\ idx' = 0
  /\ rewardData' = Null
  /\ fetched' = NotFetched
  /\ exitCode' = {}
  /\ completed' = FALSE
  /\ fatal' = "none"
  /\ saveErrors' = {}
  /\ statsError' = FALSE
  /\ walletLog' = <<>>
  /\ UNCHANGED <<retryVars, storeVars, envVars, faults>>

\* await connectDB() resolves: populateRestakers is called
ConnectResolves ==
  /\ pc = "connectDB"
  /\ EnterStage("populateRestakers")
  /\ UNCHANGED <<retryVars, storeVars, useMockData, rewardVars, exitCode,
                 clock, runs, completed, fatal, saveErrors, statsError,
                 walletLog, prev, envVars, faults>>

\* await connectDB() rejects
ConnectFails ==
  /\ pc = "connectDB"
  /\ Fault
  /\ StageThrows
  /\ UNCHANGED <<retryVars, storeVars, useMockData, rewardVars, clock, runs,
                 saveErrors, statsError, walletLog, prev, envVars>>

(***************************************************************************)
(* populateRestakers, populateValidators: the fetch                        *)
(***************************************************************************)
\* restakingData = this.dataFetcher.generateMockRestakingData(20)
MockRestakingData ==
  /\ pc = "populateRestakers"
  /\ step = "fetch"
  /\ useMockData
  /\ items' \in generateMockRestakingData(MockRestakerCount, clock)
  /\ step' = "loop"
  /\ idx' = 1
  /\ UNCHANGED <<retryVars, storeVars, pc, useMockData, rewardVars, exitCode,
                 clock, logVars, envVars, faults>>

\* validatorData = this.dataFetcher.generateMockValidatorData(10)
MockValidatorData ==
  /\ pc = "populateValidators"
  /\ step = "fetch"
  /\ useMockData
  /\ items' \in generateMockValidatorData(MockValidatorCount, clock)
  /\ step' = "loop"
  /\ idx' = 1
  /\ UNCHANGED <<retryVars, storeVars, pc, useMockData, rewardVars, exitCode,
                 clock, logVars, envVars, faults>>

\* fetchRestakingData / fetchValidatorData: return await this.retryOperation(...)
FetchData ==
  /\ pc \in {"populateRestakers", "populateValidators"}
  /\ step = "fetch"
  /\ ~useMockData
  /\ rpc = "idle"
  /\ RetryEnter(maxRetries, retryDelay)
  /\ UNCHANGED pipeVars

\* what the subgraph answers the restaking query with
RestakingData ==
  IF upstream = Unfixed THEN RestakingPayloads ELSE {upstream.restaking}

\* what the subgraph answers the operators query with
ValidatorData ==
  IF upstream = Unfixed THEN ValidatorPayloads ELSE {upstream.validators}

\* request(...) resolves with data; the operation returns its transform
RequestRestakingResolves ==
  /\ pc = "populateRestakers"
  /\ \E data \in RestakingData : RetryCallOk(transformRestakingData(data))
  /\ UNCHANGED pipeVars

RequestValidatorResolves ==
  /\ pc = "populateValidators"
  /\ \E data \in ValidatorData :
       RetryCallOk(transformValidatorData(data, clock))
  /\ UNCHANGED pipeVars

\* request(...) rejects
RequestRejects ==
  /\ pc \in {"populateRestakers", "populateValidators"}
  /\ \E e \in Errors : RetryCallFail(e)
  /\ Fault
  /\ UNCHANGED <<storeVars, procVars, logVars, envVars>>

BackoffDelay ==
  /\ pc \in {"populateRestakers", "populateValidators"}
  /\ RetryDelay
  /\ UNCHANGED pipeVars

\* retryOperation returned: the data is assigned and the for-loop starts
FetchReturned ==
  /\ pc \in {"populateRestakers", "populateValidators"}
  /\ rpc = "returned"
  /\ items' = outcome.val
  /\ step' = "loop"
  /\ idx' = 1
  /\ RetryReset
  /\ UNCHANGED <<storeVars, pc, useMockData, rewardVars, exitCode, clock,
                 logVars, envVars, faults>>

\* the delegations the run has written are removed again
FetchFailureRollsBack ==
  /\ Restaker' = <<>>
  /\ UNCHANGED <<Validator, Reward>>

\* the catch block of a populate method touches no collection
FetchFailureKeeps == UNCHANGED storeVars

\* retryOperation threw: catch (error) { ...; throw error; }
FetchThrew ==
  /\ pc \in {"populateRestakers", "populateValidators"}
  /\ rpc = "threw"
  /\ StageCatches
  /\ RetryReset
  /\ FetchFailureKeeps
  /\ UNCHANGED <<useMockData, rewardVars, clock, runs, saveErrors,
                 statsError, walletLog, prev, envVars, faults>>

(***************************************************************************)
(* populateRestakers, populateValidators: the loop                         *)
(***************************************************************************)
\* the update document of the findOneAndUpdate of populateRestakers
RestakerUpdate == items[idx]

\* for (const restakerData of restakingData) { try { await findOneAndUpdate
SaveRestaker ==
  /\ pc = "populateRestakers"
  /\ step = "loop"
  /\ idx <= Len(items)
  /\ idx' = idx + 1
  /\ \/ /\ Restaker' = FindOneAndUpdate(Restaker, RestakerUpdate.userAddress,
                                        RestakerUpdate, RestakerDefaults(clock))
        /\ UNCHANGED <<saveErrors, faults>>
     \/ /\ Fault
        /\ saveErrors' = saveErrors \cup {pc}
        /\ UNCHANGED Restaker
  /\ UNCHANGED <<retryVars, Validator, Reward, pc, step, useMockData, items,
                 rewardVars, exitCode, clock, runs, started, completed, fatal,
                 statsError, walletLog, prev, envVars>>

\* validator.delegatorCount = await Restaker.countDocuments(...); the update
\* document of the findOneAndUpdate of populateValidators
ValidatorUpdate ==
  CastValidator(
    [items[idx] EXCEPT !.delegatorCount =
       CountDelegators(Restaker, items[idx].operatorAddress)])

SaveValidator ==
  /\ pc = "populateValidators"
  /\ step = "loop"
  /\ idx <= Len(items)
  /\ idx' = idx + 1
  /\ \/ /\ Validator' = FindOneAndUpdate(Validator, ValidatorUpdate.operatorAddress,
                                         ValidatorUpdate, ValidatorDefaults(clock))
        /\ UNCHANGED <<saveErrors, faults>>
     \/ /\ Fault
        /\ saveErrors' = saveErrors \cup {pc}
        /\ UNCHANGED Validator
  /\ UNCHANGED <<retryVars, Restaker, Reward, pc, step, useMockData, items,
                 rewardVars, exitCode, clock, runs, started, completed, fatal,
                 statsError, walletLog, prev, envVars>>

\* the for-loop of a populate method is over: the method returns
LoopDone ==
  /\ pc \in {"populateRestakers", "populateValidators", "populateRewards"}
  /\ step = "loop"
  /\ idx > Len(items)
  /\ StageReturns
  /\ UNCHANGED <<retryVars, storeVars, useMockData, rewardVars, clock, runs,
                 fatal, saveErrors, statsError, walletLog, prev, envVars,
                 faults>>

(***************************************************************************)
(* populateRewards                                                         *)
(***************************************************************************)
\* what the Rated API holds for a wallet; NoData when it cannot be asked
\* (no RATED_API_KEY, or both endpoints failed)
RatedData ==
  IF upstream = Unfixed THEN RatedPayloads \cup {NoData} ELSE {upstream.rated}

\* what fetchRewardsFromRated(walletAddress) may resolve with
RatedResults(walletAddress) ==
  {IF data = NoData THEN Null ELSE transformRatedRewardsData(data, walletAddress) :
     data \in RatedData}

\* restakers = await Restaker.find({}, "userAddress").lean()
FindWallets ==
  /\ pc = "populateRewards"
  /\ step = "fetch"
  /\ \/ /\ items' \in Orderings(DOMAIN Restaker)
        /\ step' = "loop"
        /\ idx' = 1
        /\ UNCHANGED <<pc, exitCode, started, completed, fatal, faults>>
     \/ /\ Fault
        /\ StageCatches
  /\ UNCHANGED <<retryVars, storeVars, useMockData, rewardVars, clock, runs,
                 saveErrors, statsError, walletLog, prev, envVars>>

\* mock data also takes the place of a result without rewards
FallsBackOnEmpty(rated) ==
  IF rated = Null THEN TRUE ELSE rated.rewardsBreakdown = <<>>

\* the result of the Rated API is kept whatever it is
FallsBackNever(rated) == FALSE

\* if (!rewardData): null is the only falsy result of fetchRewardsFromRated
FallsBack(rated) == rated = Null

\* the first half of the try block: rewardData is computed; fetched counts
\* the calls of fetchRewardsFromRated and of generateMockRewardsData
GetRewardData ==
  /\ pc = "populateRewards"
  /\ step = "loop"
  /\ idx <= Len(items)
  /\ IF useMockData
       THEN /\ rewardData' \in generateMockRewardsData(items[idx], clock)
            /\ fetched' = [client |-> 0, absent |-> FALSE, mock |-> 1]
       ELSE \E rated \in RatedResults(items[idx]) :
              /\ IF FallsBack(rated)
                    THEN rewardData' \in generateMockRewardsData(items[idx], clock)
                    ELSE rewardData' = rated
              /\ fetched' = [client |-> 1,
                             absent |-> rated = Null,
                             mock |-> IF FallsBack(rated) THEN 1 ELSE 0]
  /\ step' = "save"
  /\ UNCHANGED <<retryVars, storeVars, pc, useMockData, items, idx, exitCode,
                 clock, logVars, envVars, faults>>

\* the loop is left at the first failing wallet
AfterWalletFailureBreak(i, n) == n + 1

\* the catch inside the for-loop only logs: the next wallet is index i + 1
AfterWalletFailure(i, n) == i + 1

\* an exception in the first half of the try block: the catch logs it and
\* the loop goes on
RewardDataThrows ==
  /\ pc = "populateRewards"
  /\ step = "loop"
  /\ idx <= Len(items)
  /\ Fault
  /\ walletLog' = Append(walletLog, "failed")
  /\ saveErrors' = saveErrors \cup {pc}
  /\ idx' = AfterWalletFailure(idx, Len(items))
  /\ UNCHANGED <<retryVars, storeVars, pc, step, useMockData, items,
                 rewardVars, exitCode, clock, runs, started, completed, fatal,
                 statsError, prev, envVars>>

\* an additive merge: the incoming total is added to the persisted one
RewardUpsertAdditive(coll, update, now) ==
  IF update.walletAddress \in DOMAIN coll
    THEN [coll EXCEPT ![update.walletAddress].totalRewardsReceivedStETH =
            ParseFloatSum(@, update.totalRewardsReceivedStETH)]
    ELSE FindOneAndUpdate(coll, update.walletAddress, update, RewardDefaults(now))

\* await Reward.findOneAndUpdate({ walletAddress }, rewardData, { upsert })
RewardUpsert(coll, update, now) ==
  FindOneAndUpdate(coll, update.walletAddress, update, RewardDefaults(now))

\* if (rewardData): the total is not looked at
ShouldSaveRewardAny(data) == data # Null

\* if (rewardData && parseFloat(rewardData.totalRewardsReceivedStETH) > 0)
ShouldSaveReward(data) ==
  data # Null /\ IsPositive(data.totalRewardsReceivedStETH)

\* the second half of the try block
SaveReward ==
  /\ pc = "populateRewards"
  /\ step = "save"
  /\ IF ShouldSaveReward(rewardData)
       THEN \/ /\ Reward' = RewardUpsert(Reward, rewardData, clock)
               /\ walletLog' = Append(walletLog, "saved")
               /\ idx' = idx + 1
               /\ UNCHANGED <<saveErrors, faults>>
            \/ /\ Fault
               /\ walletLog' = Append(walletLog, "failed")
               /\ saveErrors' = saveErrors \cup {pc}
               /\ idx' = AfterWalletFailure(idx, Len(items))
               /\ UNCHANGED Reward
       ELSE /\ walletLog' = Append(walletLog, "skipped")
            /\ idx' = idx + 1
            /\ UNCHANGED <<Reward, saveErrors, faults>>
  /\ step' = "loop"
  /\ rewardData' = Null
  /\ fetched' = NotFetched
  /\ UNCHANGED <<retryVars, Restaker, Validator, pc, useMockData, items,
                 exitCode, clock, runs, started, completed, fatal,
                 statsError, prev, envVars>>

(***************************************************************************)
(* updateStatistics                                                        *)
(***************************************************************************)
\* the recomputed count is not written
SaveDelegatorCountNoop(coll, operatorAddress, delegatorCount, now) == coll

\* validator.delegatorCount = delegatorCount; await validator.save()
\* (the pre-save hook sets lastUpdated)
SaveDelegatorCount(coll, operatorAddress, delegatorCount, now) ==
  [coll EXCEPT ![operatorAddress] =
     [@ EXCEPT !.delegatorCount = delegatorCount, !.lastUpdated = now]]

\* const validators = await Validator.find({})
FindValidators ==
  /\ pc = "updateStatistics"
  /\ step = "fetch"
  /\ walletLog' = <<>>
  /\ \/ /\ items' \in Orderings(DOMAIN Validator)
        /\ step' = "loop"
        /\ idx' = 1
        /\ UNCHANGED <<pc, exitCode, started, completed, fatal, statsError,
                       faults>>
     \/ /\ Fault
        /\ statsError' = TRUE
        /\ StageCatches
  /\ UNCHANGED <<retryVars, storeVars, useMockData, rewardVars, clock, runs,
                 saveErrors, prev, envVars>>

\* one round of for (const validator of validators)
ReconcileValidator ==
  /\ pc = "updateStatistics"
  /\ step = "loop"
  /\ idx <= Len(items)
  /\ LET delegatorCount == CountDelegators(Restaker, items[idx])
     IN  \/ /\ Validator' =
                 IF Validator[items[idx]].delegatorCount # delegatorCount
                   THEN SaveDelegatorCount(Validator, items[idx], delegatorCount, clock)
                   ELSE Validator
            /\ idx' = idx + 1
            /\ UNCHANGED <<pc, step, items, exitCode, started, completed,
                           fatal, statsError, faults>>
         \/ /\ Fault
            /\ statsError' = TRUE
            /\ StageCatches
            /\ UNCHANGED Validator
  /\ UNCHANGED <<retryVars, Restaker, Reward, useMockData, rewardVars, clock,
                 runs, saveErrors, walletLog, prev, envVars>>

\* the summary queries after the loop; the method returns either way
StatsSummary ==
  /\ pc = "updateStatistics"
  /\ step = "loop"
  /\ idx > Len(items)
  /\ \/ UNCHANGED <<statsError, faults>>
     \/ /\ Fault
        /\ statsError' = TRUE
  /\ StageCatches
  /\ UNCHANGED <<retryVars, storeVars, useMockData, rewardVars, clock, runs,
                 saveErrors, walletLog, prev, envVars>>

(***************************************************************************)
(* Spec: one run of the script against an empty store, every upstream      *)
(* answer drawn afresh, with up to MaxFaults injected failures.            *)
(***************************************************************************)
EmptyCollection == <<>>

\* no call of a model method yet
NoCall == [count |-> 0]

\* the script is not running
ProcIdle ==
  /\ pc = "idle"
  /\ step = "fetch"
  /\ useMockData = FALSE
  /\ items = <<>>
  /\ idx = 0
  /\ rewardData = Null
  /\ fetched = NotFetched
  /\ exitCode = {}
  /\ runs = 0
  /\ started = <<>>
  /\ completed = FALSE
  /\ fatal = "none"
  /\ saveErrors = {}
  /\ statsError = FALSE
  /\ walletLog = <<>>
  /\ prev = NoPrev
  /\ faults = 0
  /\ call = NoCall

PipeIdle ==
  /\ ProcIdle
  /\ Restaker = EmptyCollection
  /\ Validator = EmptyCollection
  /\ Reward = EmptyCollection
  /\ clock = 10

RetryIdle ==
  /\ maxRetries = DefaultMaxRetries
  /\ retryDelay = DefaultRetryDelay
  /\ attempt = 0
  /\ rpc = "idle"
  /\ results = <<>>
  /\ waits = <<>>
  /\ outcome = NoOutcome

Init ==
  /\ RetryIdle
  /\ PipeIdle
  /\ upstream = Unfixed
  /\ limits = [runs |-> 1, faults |-> MaxFaults]

\* every step of a run but the exhaustion of a fetch's retries
NextRerun ==
  \/ \E mock \in BOOLEAN : StartRun(mock)
  \/ ConnectResolves
  \/ ConnectFails
  \/ MockRestakingData
  \/ MockValidatorData
  \/ FetchData
  \/ RequestRestakingResolves
  \/ RequestValidatorResolves
  \/ RequestRejects
  \/ BackoffDelay
  \/ FetchReturned
  \/ SaveRestaker
  \/ SaveValidator
  \/ LoopDone
  \/ FindWallets
  \/ GetRewardData
  \/ RewardDataThrows
  \/ SaveReward
  \/ FindValidators
  \/ ReconcileValidator
  \/ StatsSummary

Next ==
  \/ NextRerun
  \/ FetchThrew

Spec == Init /\ [][Next]_vars

(***************************************************************************)
(* SpecSignal: one run of the script that a SIGINT or SIGTERM may reach    *)
(* at any await of the run.                                                *)
(***************************************************************************)
Signals == {"SIGINT", "SIGTERM"}

\* process.on(sig, () => { console.log(...); process.exit(0); }): the handler
\* runs while the run awaits an operation and ends the process there; what
\* the run was awaiting stays as it was
Signal(sig) ==
  /\ pc \notin {"idle", "exited"}
  /\ pc' = "exited"
  /\ exitCode' = {0}
  /\ UNCHANGED <<retryVars, storeVars, step, useMockData, items, idx,
                 rewardVars, clock, logVars, envVars, faults>>

InitSignal ==
  /\ RetryIdle
  /\ PipeIdle
  /\ upstream = Unfixed
  /\ limits = [runs |-> 1, faults |-> MaxRerunFaults]

NextSignal ==
  \/ NextRerun
  \/ \E sig \in Signals : Signal(sig)

SpecSignal == InitSignal /\ [][NextSignal]_vars

(***************************************************************************)
(* SpecRerun: up to MaxRuns runs against one store while the upstream      *)
(* services hold one data set, with up to MaxRerunFaults injected failures *)
(* (too few to exhaust the retries of a fetch).                            *)
(***************************************************************************)
\* both users delegate to the first operator, both operators are listed,
\* one reward of 0.1 from the first operator
BaseDataset ==
  [restaking |->
     [delegations |->
        CHOOSE ds \in [1..2 -> DelegationEvents] :
          /\ ds[1].delegator # ds[2].delegator
          /\ \A i \in 1..2 : ds[i].operator = mockOperators[1],
      stakers |-> <<>>],
   validators |->
     [operators |->
        CHOOSE os \in [1..2 -> OperatorItems] :
          \A i \in 1..2 : os[i].id = mockOperators[i],
      slashings |-> <<>>],
   rated |->
     [rewards |->
        CHOOSE rs \in [1..1 -> RewardItems] :
          rs[1].amount = Wei(1, 17) /\ rs[1].operator = mockOperators[1]]]

\* the parts of a data set
Parts(d) ==
  <<d.restaking.delegations, d.restaking.stakers, d.validators.operators,
    d.validators.slashings, d.rated>>

\* the data sets that differ from BaseDataset in at most one part
Datasets ==
  {d \in [restaking : RestakingPayloads,
          validators : ValidatorPayloads,
          rated : RatedPayloads \cup {NoData}] :
     Cardinality({i \in 1..5 : Parts(d)[i] # Parts(BaseDataset)[i]}) <= 1}

InitRerun ==
  /\ RetryIdle
  /\ PipeIdle
  /\ upstream \in Datasets
  /\ limits = [runs |-> MaxRuns, faults |-> MaxRerunFaults]

SpecRerun == InitRerun /\ [][NextRerun]_vars

(***************************************************************************)
(* SpecAbort: up to MaxRuns runs against one store, in either mode, over   *)
(* one upstream data set, with up to MaxFaults injected failures (enough   *)
(* to exhaust the retries of a fetch).                                     *)
(***************************************************************************)
InitAbort ==
  /\ RetryIdle
  /\ PipeIdle
  /\ upstream = BaseDataset
  /\ limits = [runs |-> MaxRuns, faults |-> MaxFaults]

SpecAbort == InitAbort /\ [][Next]_vars

(***************************************************************************)
(* SpecRetry: one call of retryOperation(operation, maxRetries), for every *)
(* maxRetries in 0..MaxAttempts and every behaviour of operation.          *)
(***************************************************************************)
InitRetry ==
  /\ upstream = Unfixed
  /\ limits = [runs |-> 0, faults |-> 0]
  /\ maxRetries \in 0..MaxAttempts
  /\ retryDelay \in RetryDelays
  /\ attempt = 1
  /\ rpc = "call"
  /\ results = <<>>
  /\ waits = <<>>
  /\ outcome = NoOutcome
  /\ PipeIdle

OperationResolves == (\E r \in Values : RetryCallOk(r)) /\ UNCHANGED pipeVars

OperationRejects == (\E e \in Errors : RetryCallFail(e)) /\ UNCHANGED pipeVars

OperationDelay == RetryDelay /\ UNCHANGED pipeVars

OperationLoopExit == RetryLoopExit /\ UNCHANGED pipeVars

NextRetry ==
  \/ OperationResolves
  \/ OperationRejects
  \/ OperationDelay
  \/ OperationLoopExit

SpecRetry == InitRetry /\ [][NextRetry]_vars

(***************************************************************************)
(* rewardSchema.methods.addReward and the pre("save") hook                 *)
(***************************************************************************)
\* an operator address as a caller may write it, with capitals
ChecksumOperator == "0xABCDEF0123456789abcdef0123456789ABCDEF01"

\* String.prototype.toLowerCase on the addresses of the model
ToLowerCase(s) ==
  IF s = ChecksumOperator
    THEN "0xabcdef0123456789abcdef0123456789abcdef01"
    ELSE s

\* if (transactionHash), if (blockNumber): an optional argument is <<>> when
\* it is not passed and <<v>> when it is; "" and 0 are falsy
TruthyString(opt) == opt # <<>> /\ opt[1] # ""
TruthyNumber(opt) == opt # <<>> /\ opt[1] # 0

\* this.rewardsBreakdown.find(b => b.operatorAddress === key): the position
\* of the first match, 0 when there is none
FindBreakdown(rewardsBreakdown, key) ==
  LET found == {i \in 1..Len(rewardsBreakdown) :
                  rewardsBreakdown[i].operatorAddress = key}
  IN  IF found = {} THEN 0 ELSE CHOOSE i \in found : \A j \in found : i <= j

\* the document after the body of addReward, before this.save()
addReward(doc, operatorAddress, amount, timestamp, transactionHash, blockNumber) ==
  LET key == ToLowerCase(operatorAddress)
      i == FindBreakdown(doc.rewardsBreakdown, key)
      existingBreakdown == doc.rewardsBreakdown[i]
      updated ==
        [existingBreakdown EXCEPT
           !.amountStETH = ParseFloatSum(@, amount),
           !.timestamps = Append(@, timestamp),
           !.transactionHashes =
             IF TruthyString(transactionHash) THEN @ \o transactionHash ELSE @,
           !.blockNumbers =
             IF TruthyNumber(blockNumber) THEN @ \o blockNumber ELSE @]
      created ==
        [operatorAddress |-> key,
         amountStETH |-> amount,
         timestamps |-> <<timestamp>>,
         transactionHashes |->
           IF TruthyString(transactionHash) THEN transactionHash ELSE <<>>,
         blockNumbers |->
           IF TruthyNumber(blockNumber) THEN blockNumber ELSE <<>>]
  IN  [doc EXCEPT
         !.rewardsBreakdown =
           IF i # 0 THEN [@ EXCEPT ![i] = updated] ELSE Append(@, created),
         !.totalRewardsReceivedStETH = ParseFloatSum(@, amount)]

\* breakdown.timestamps of every breakdown, concatenated
AllTimestamps(rewardsBreakdown) ==
  Concat([i \in 1..Len(rewardsBreakdown) |-> rewardsBreakdown[i].timestamps])

\* (parseFloat(total) / divisor).toString(), kept as the division it prints
Quotient(total, divisor) == [dividend |-> total, divisor |-> divisor]

\* new Date(seconds * 1000)
DateOfSeconds(seconds) == [ms |-> seconds * 1000]

\* rewardSchema.pre("save"): the calculated fields, at time now (seconds)
PreSave(doc, now) ==
  LET all == AllTimestamps(doc.rewardsBreakdown)
      totalRewardEvents == Len(all)
      first == CHOOSE t \in {all[i] : i \in 1..Len(all)} :
                 \A i \in 1..Len(all) : t <= all[i]
      last == CHOOSE t \in {all[i] : i \in 1..Len(all)} :
                \A i \in 1..Len(all) : t >= all[i]
      sinceFirst == now - first
      total == doc.totalRewardsReceivedStETH
  IN  [doc EXCEPT
         !.lastUpdated = now,
         !.totalRewardEvents = totalRewardEvents,
         !.averageRewardAmount =
           IF totalRewardEvents > 0 THEN Quotient(total, totalRewardEvents) ELSE @,
         !.firstRewardTimestamp =
           IF all # <<>> THEN DateOfSeconds(first) ELSE @,
         !.lastRewardTimestamp =
           IF all # <<>> THEN DateOfSeconds(last) ELSE @,
         !.rewardFrequency =
           IF all # <<>> /\ sinceFirst > 0
             THEN [dailyAverage |-> Quotient(total, <<sinceFirst, 1>>),
                   weeklyAverage |-> Quotient(total, <<sinceFirst, 7>>),
                   monthlyAverage |-> Quotient(total, <<sinceFirst, 30>>)]
             ELSE @]

\* what addReward may be called with
RewardOperators ==
  {mockOperators[1], ChecksumOperator, ToLowerCase(ChecksumOperator)}
RewardAmounts == {Dec(2, 1), Dec(5, 0)}
RewardTimestamps == {1680, 1700}
RewardTxHash ==
  "0x4c1f8e2a9b7d3c5e6f0a1b2c3d4e5f60718293a4b5c6d7e8f90123456789abcd"
RewardReferences ==
  {[transactionHash |-> <<>>, blockNumber |-> <<>>],
   [transactionHash |-> <<RewardTxHash>>, blockNumber |-> <<0>>],
   [transactionHash |-> <<RewardTxHash>>, blockNumber |-> <<18600000>>]}

\* doc.addReward(operatorAddress, amount, timestamp, transactionHash,
\* blockNumber) on the document of a wallet, loaded from the store; save()
\* runs the hook and writes the document, or rejects and writes nothing
AddReward ==
  /\ pc = "idle"
  /\ call.count < MaxCalls
  /\ \E walletAddress \in DOMAIN Reward,
        operatorAddress \in RewardOperators,
        amount \in RewardAmounts,
        timestamp \in RewardTimestamps,
        ref \in RewardReferences,
        saved \in BOOLEAN :
       LET doc == Reward[walletAddress]
           after == addReward(doc, operatorAddress, amount, timestamp,
                              ref.transactionHash, ref.blockNumber)
       IN  /\ call' = [count |-> call.count + 1,
                       walletAddress |-> walletAddress,
                       operatorAddress |-> operatorAddress,
                       amount |-> amount,
                       timestamp |-> timestamp,
                       transactionHash |-> ref.transactionHash,
                       blockNumber |-> ref.blockNumber,
                       doc |-> doc,
                       saved |-> saved]
           /\ Reward' = IF saved
                          THEN [Reward EXCEPT ![walletAddress] = PreSave(after, clock + 1)]
                          ELSE Reward
  /\ clock' = clock + 1
  /\ UNCHANGED <<retryVars, Restaker, Validator, pc, step, useMockData, items,
                 idx, rewardVars, exitCode, logVars, upstream, limits, faults>>

(***************************************************************************)
(* SpecReward: up to MaxCalls calls of addReward on a document that a run  *)
(* of the script has written for a wallet.                                 *)
(***************************************************************************)
\* the reward data populateRewards may hold for a wallet when it saves
SavedRewardData(walletAddress, now) ==
  {data \in {transformRatedRewardsData(rated, walletAddress) : rated \in RatedPayloads}
            \cup generateMockRewardsData(walletAddress, now) :
     ShouldSaveReward(data)}

InitReward ==
  /\ RetryIdle
  /\ ProcIdle
  /\ upstream = Unfixed
  /\ limits = [runs |-> 0, faults |-> 0]
  /\ clock = 2000
  /\ Restaker = EmptyCollection
  /\ Validator = EmptyCollection
  /\ \E walletAddress \in Users :
       \E data \in SavedRewardData(walletAddress, clock) :
         Reward = RewardUpsert(EmptyCollection, data, clock)

NextReward == AddReward

SpecReward == InitReward /\ [][NextReward]_vars

(***************************************************************************)
(* DataFetcher.fetchRewardsFromRated                                       *)
(***************************************************************************)
\* the two URLs of the endpoints array, without the address they end in
endpoints ==
  <<"/v1/eigenlayer/rewards/delegator/",
    "/v1/eigenlayer/rewards/rewards?delegator=">>

\* if (!process.env.RATED_API_KEY) with the key always there
HasApiKeyAlways(apiKey) == TRUE

\* if (!process.env.RATED_API_KEY): the variable is <<>> when it is not set
HasApiKey(apiKey) == TruthyString(apiKey)

\* if (response.data): an empty body is falsy
EmptyBody == [empty |-> TRUE]
HasBody(answer) == answer.kind = "resolves" /\ answer.data # EmptyBody

\* the for-loop over endpoints from endpoint i on; answers[i] is what
\* axios.get of endpoint i does, requests the calls of axios.get so far.
\* The catch of the loop body takes a rejected request and an exception of
\* transformRatedRewardsData alike, and the loop goes on
RECURSIVE RatedLoop(_, _, _, _)
RatedLoop(answers, address, i, requests) ==
  IF i > Len(endpoints)
    THEN [requests |-> requests, result |-> Null]
    ELSE LET answer == answers[i]
             asked == Append(requests, [url |-> endpoints[i], address |-> address])
         IN  IF HasBody(answer) /\ ~RatedTransformThrows(answer.data)
               THEN [requests |-> asked,
                     result |-> transformRatedRewardsData(answer.data, address)]
               ELSE RatedLoop(answers, address, i + 1, asked)

\* fetchRewardsFromRated(address): the requests it issues and what it
\* resolves with
fetchRewardsFromRated(apiKey, answers, address) ==
  IF ~HasApiKey(apiKey)
    THEN [requests |-> <<>>, result |-> Null]
    ELSE RatedLoop(answers, address, 1, <<>>)

\* what process.env.RATED_API_KEY may be
ApiKeys == {<<>>, <<"">>, <<"rated-api-key">>}

\* reward items as the Rated API may send them, an amount that is no number
\* among them
RawRewardItems ==
  [amount : {Wei(1, 17), Wei(2, 17), NotANumber}, operator : Operators,
   timestamp : {1690}]

\* the bodies an endpoint may answer with
RatedBodies ==
  {EmptyBody, [detail |-> "no rewards for this delegator"]}
    \cup [rewards : SeqsUpTo(RawRewardItems, MaxBatch)]

\* what axios.get of an endpoint may do
RatedAnswers ==
  {[kind |-> "rejects", status |-> 404]}
    \cup [kind : {"resolves"}, data : RatedBodies]

\* one call of fetchRewardsFromRated(address)
FetchRewardsFromRated ==
  /\ pc = "idle"
  /\ call = NoCall
  /\ \E apiKey \in ApiKeys, answers \in [1..Len(endpoints) -> RatedAnswers],
        address \in Users :
       LET done == fetchRewardsFromRated(apiKey, answers, address)
       IN  call' = [count |-> 1,
                    method |-> "fetchRewardsFromRated",
                    apiKey |-> apiKey,
                    answers |-> answers,
                    address |-> address,
                    requests |-> done.requests,
                    result |-> done.result]
  /\ UNCHANGED <<retryVars, storeVars, procVars, logVars, upstream, limits,
                 faults>>

(***************************************************************************)
(* The transform methods of DataFetcher, called on what a service sent.    *)
(***************************************************************************)
\* items as the services may send them, shares and amounts that are no
\* number and a staker without deposits among them
RawDelegationEvents ==
  [delegator : Users, operator : {mockOperators[1]},
   shares : {Wei(1, 17), NotANumber}, createdAt : {1700},
   transactionHash : {UpstreamTxHash}, blockNumber : {18500000}]

RawDepositEvents ==
  [strategy : {StethStrategyAddress}, shares : {Wei(2, 18), NotANumber},
   createdAt : {1700}, transactionHash : {UpstreamTxHash},
   blockNumber : {18500000}]

RawStakerEvents ==
  [id : {CHOOSE u \in Users : TRUE},
   deposits : SeqsUpTo(RawDepositEvents, MaxBatch)]
    \cup {[id |-> CHOOSE u \in Users : TRUE]}

RawRestakingPayloads ==
  [delegations : SeqsUpTo(RawDelegationEvents, MaxBatch),
   stakers : SeqsUpTo(RawStakerEvents, MaxBatch)]

RawOperatorItems ==
  [id : Operators, totalShares : {Wei(5, 18), NotANumber}, createdAt : {1600},
   metadataURI : {"ipfs://operator"}]

RawSlashingItems ==
  [operator : Operators, amount : {Wei(1, 18), Wei(2, 18), NotANumber},
   createdAt : {1650},
   transactionHash : {UpstreamTxHash}, blockNumber : {18400000}]

RawValidatorPayloads ==
  [operators : SeqsUpTo(RawOperatorItems, MaxBatch),
   slashings : SeqsUpTo(RawSlashingItems, MaxBatch)]

\* one call of transformRestakingData(data)
TransformRestakingData ==
  /\ pc = "idle"
  /\ call = NoCall
  /\ \E data \in RawRestakingPayloads :
       call' = [count |-> 1,
                method |-> "transformRestakingData",
                data |-> data,
                threw |-> RestakingTransformThrows(data),
                result |-> IF RestakingTransformThrows(data)
                             THEN <<>>
                             ELSE transformRestakingData(data)]
  /\ UNCHANGED <<retryVars, storeVars, procVars, logVars, upstream, limits,
                 faults>>

\* one call of transformValidatorData(data)
TransformValidatorData ==
  /\ pc = "idle"
  /\ call = NoCall
  /\ \E data \in RawValidatorPayloads :
       call' = [count |-> 1,
                method |-> "transformValidatorData",
                data |-> data,
                threw |-> ValidatorTransformThrows(data),
                result |-> IF ValidatorTransformThrows(data)
                             THEN <<>>
                             ELSE transformValidatorData(data, clock)]
  /\ UNCHANGED <<retryVars, storeVars, procVars, logVars, upstream, limits,
                 faults>>

\* one call of transformRatedRewardsData(data, walletAddress)
TransformRatedRewardsData ==
  /\ pc = "idle"
  /\ call = NoCall
  /\ \E data \in RatedBodies \ {EmptyBody}, walletAddress \in Users :
       call' = [count |-> 1,
                method |-> "transformRatedRewardsData",
                data |-> data,
                walletAddress |-> walletAddress,
                threw |-> RatedTransformThrows(data),
                result |-> IF RatedTransformThrows(data)
                             THEN <<>>
                             ELSE transformRatedRewardsData(data, walletAddress)]
  /\ UNCHANGED <<retryVars, storeVars, procVars, logVars, upstream, limits,
                 faults>>

\* one call of generateMockRewardsData(walletAddress)
GenerateMockRewardsData ==
  /\ pc = "idle"
  /\ call = NoCall
  /\ \E walletAddress \in Users :
       \E data \in generateMockRewardsData(walletAddress, clock) :
         call' = [count |-> 1,
                  method |-> "generateMockRewardsData",
                  walletAddress |-> walletAddress,
                  threw |-> FALSE,
                  result |-> data]
  /\ UNCHANGED <<retryVars, storeVars, procVars, logVars, upstream, limits,
                 faults>>

\* the decimal strings with at most 18 fractional digits, "0.0" and "1.20"
\* among them
DecimalAmounts == {Dec(n, k) : n \in 0..MaxDigits, k \in 0..EtherDecimals}

\* one call of fromWei(toWei(amount))
ToWeiFromWei ==
  /\ pc = "idle"
  /\ call = NoCall
  /\ \E amount \in DecimalAmounts :
       call' = [count |-> 1,
                method |-> "fromWei(toWei)",
                amount |-> amount,
                wei |-> ToWei(amount),
                result |-> FromWei(ToWei(amount))]
  /\ UNCHANGED <<retryVars, storeVars, procVars, logVars, upstream, limits,
                 faults>>

(***************************************************************************)
(* SpecFetcher: one call of a method of DataFetcher, for every input of    *)
(* the method within the bounds.                                           *)
(***************************************************************************)
InitFetcher ==
  /\ RetryIdle
  /\ PipeIdle
  /\ upstream = Unfixed
  /\ limits = [runs |-> 0, faults |-> 0]

NextFetcher ==
  \/ FetchRewardsFromRated
  \/ TransformRestakingData
  \/ TransformValidatorData
  \/ TransformRatedRewardsData
  \/ GenerateMockRewardsData
  \/ ToWeiFromWei

SpecFetcher == InitFetcher /\ [][NextFetcher]_vars

(***************************************************************************)
(* Validator.addSlashEvent                                                 *)
(***************************************************************************)
HexDigits ==
  {"0", "1", "2", "3", "4", "5", "6", "7", "8", "9",
   "a", "b", "c", "d", "e", "f", "A", "B", "C", "D", "E", "F"}

\* /^0x[a-fA-F0-9]{n}$/.test(v)
IsHex(v, n) ==
  /\ Len(v) = n + 2
  /\ SubSeq(v, 1, 2) = "0x"
  /\ \A i \in 3..(n + 2) : SubSeq(v, i, i) \in HexDigits

\* the paths of slashEventSchema (strict mode drops the others)
SlashEventPaths ==
  {"timestamp", "amountStETH", "reason", "transactionHash", "blockNumber"}

\* the subdocument slashHistory.push(slashData) makes of slashData
CastSlashEvent(slashData) ==
  [f \in DOMAIN slashData \cap SlashEventPaths |-> slashData[f]]

\* the validators of slashEventSchema
ValidSlashEvent(e) ==
  /\ "timestamp" \in DOMAIN e
  /\ e.timestamp >= 0
  /\ "amountStETH" \in DOMAIN e
  /\ IsDec(e.amountStETH)
  /\ "transactionHash" \in DOMAIN e => IsHex(e.transactionHash, 64)
  /\ "blockNumber" \in DOMAIN e => e.blockNumber >= 0

\* the status changes whatever it was
addSlashEventAlways(doc, slashData) ==
  [doc EXCEPT !.slashHistory = Append(@, CastSlashEvent(slashData)),
              !.status = "slashed"]

\* this.slashHistory.push(slashData); if (this.status === "active")
\* this.status = "slashed": the document in memory before save()
addSlashEvent(doc, slashData) ==
  [doc EXCEPT !.slashHistory = Append(@, CastSlashEvent(slashData)),
              !.status = IF @ = "active" THEN "slashed" ELSE @]

\* the enum of status
ValidatorStatuses == {"active", "jailed", "slashed", "inactive", "deregistered"}

SlashTxHash ==
  "0x7d2e4b6a8c0f1e3d5b7a9c2e4f6d8b0a1c3e5f7a9b2d4c6e8f0a1b3c5d7e9f02"

\* what addSlashEvent may be called with: a full event, one without the
\* optional paths, one with a path the schema does not declare, one whose
\* amount is no number, one without the required timestamp
SlashData ==
  {[timestamp |-> 1800, amountStETH |-> Dec(3, 0), reason |-> "Double signing",
    transactionHash |-> SlashTxHash, blockNumber |-> 18700000],
   [timestamp |-> 1810, amountStETH |-> Dec(25, 1)],
   [timestamp |-> 1820, amountStETH |-> Dec(4, 0), operator |-> "0xabc"],
   [timestamp |-> 1830, amountStETH |-> NotANumber],
   [amountStETH |-> Dec(1, 0), transactionHash |-> "0x5f3a9c"]}

\* doc.addSlashEvent(slashData) on the document of an operator, loaded from
\* the store; save() validates, runs the hook (lastUpdated) and writes the
\* document, or rejects and writes nothing
AddSlashEvent ==
  /\ pc = "idle"
  /\ call.count < MaxCalls
  /\ \E operatorAddress \in DOMAIN Validator,
        slashData \in SlashData,
        resolves \in BOOLEAN :
       LET doc == Validator[operatorAddress]
           after == addSlashEvent(doc, slashData)
           saved == /\ resolves
                    /\ \A i \in 1..Len(after.slashHistory) :
                         ValidSlashEvent(after.slashHistory[i])
       IN  /\ call' = [count |-> call.count + 1,
                       method |-> "addSlashEvent",
                       operatorAddress |-> operatorAddress,
                       slashData |-> slashData,
                       doc |-> doc,
                       after |-> after,
                       stored |-> Validator,
                       saved |-> saved]
           /\ Validator' =
                IF saved
                  THEN [Validator EXCEPT ![operatorAddress] =
                          [after EXCEPT !.lastUpdated = clock + 1]]
                  ELSE Validator
  /\ clock' = clock + 1
  /\ UNCHANGED <<retryVars, Restaker, Reward, pc, step, useMockData, items,
                 idx, rewardVars, exitCode, logVars, upstream, limits, faults>>

(***************************************************************************)
(* SpecSlash: up to MaxCalls calls of addSlashEvent on the document of an  *)
(* operator that a run of the script has written, in any status of the     *)
(* schema's enum.                                                          *)
(***************************************************************************)
\* the documents populateValidators may have inserted for the operators of
\* an upstream payload
SavedOperators(now) ==
  {SetPaths(ValidatorDefaults(now), CastValidator(rec[1])) :
     rec \in {transformValidatorData(data, now) : data \in ValidatorPayloads} \ {<<>>}}

InitSlash ==
  /\ RetryIdle
  /\ ProcIdle
  /\ upstream = Unfixed
  /\ limits = [runs |-> 0, faults |-> 0]
  /\ clock = 2000
  /\ Restaker = EmptyCollection
  /\ Reward = EmptyCollection
  /\ \E doc \in SavedOperators(clock), status \in ValidatorStatuses :
       Validator = FindOneAndUpdate(EmptyCollection, doc.operatorAddress,
                                    [doc EXCEPT !.status = status],
                                    ValidatorDefaults(clock))

NextSlash == AddSlashEvent

SpecSlash == InitSlash /\ [][NextSlash]_vars

(***************************************************************************)
(* SpecLive: one run of the script in real mode in which every pending     *)
(* request and every pending store operation settles, so that a run that   *)
(* can take a step takes one.  The Rated API answers with no reward.       *)
(***************************************************************************)
LiveDataset == [BaseDataset EXCEPT !.rated.rewards = <<>>]

InitLive ==
  /\ RetryIdle
  /\ PipeIdle
  /\ upstream = LiveDataset
  /\ limits = [runs |-> 1, faults |-> MaxFaults]

\* the steps of a run that fetches from the upstream services
NextLive ==
  \/ StartRun(FALSE)
  \/ ConnectResolves
  \/ ConnectFails
  \/ FetchData
  \/ RequestRestakingResolves
  \/ RequestValidatorResolves
  \/ RequestRejects
  \/ BackoffDelay
  \/ FetchReturned
  \/ FetchThrew
  \/ SaveRestaker
  \/ SaveValidator
  \/ LoopDone
  \/ FindWallets
  \/ GetRewardData
  \/ RewardDataThrows
  \/ SaveReward
  \/ FindValidators
  \/ ReconcileValidator
  \/ StatsSummary

SpecLive == InitLive /\ [][NextLive]_vars /\ WF_vars(NextLive)

Failures(rs) == {i \in 1..Len(rs) : ~rs[i].ok}

\* C1: with maxRetries >= 1, retryOperation invokes operation at least once
\* and at most maxRetries times; it returns the result of the first
\* successful invocation and invokes nothing after it; when all maxRetries
\* invocations fail it throws the very error of the last invocation.
C1_RetryContract ==
  maxRetries >= 1 =>
    /\ Len(results) <= maxRetries
    /\ \A i \in 1..Len(results) : results[i].ok => i = Len(results)
    /\ rpc \in {"returned", "threw"} => Len(results) >= 1
    /\ rpc = "returned" =>
         /\ results[Len(results)].ok
         /\ outcome = [kind |-> "return", val |-> results[Len(results)].val]
    /\ rpc = "threw" =>
         /\ Len(results) = maxRetries
         /\ Failures(results) = 1..maxRetries
         /\ outcome = [kind |-> "throw", val |-> results[maxRetries].val]
    /\ (Len(results) = maxRetries /\ Failures(results) = 1..maxRetries)
         => rpc = "threw"

\* C1 witness: three attempts, all failing, the last with another error
\* than the first
C1_Witness ==
  /\ maxRetries = 3
  /\ rpc = "threw"
  /\ Len(results) = 3
  /\ results[1].val = "ETIMEDOUT"
  /\ results[3].val = "ECONNREFUSED"

\* C2: after the k-th failed attempt (k < maxRetries) the executor waits
\* retryDelay * k before attempt k+1; there is no wait after the final
\* failure or after a success; the defaults give 5000 then 10000.
C2_LinearBackoff ==
  /\ \A k \in 1..Len(waits) : waits[k] = retryDelay * k
  /\ rpc = "call" => Len(waits) = Len(results) /\ attempt = Len(waits) + 1
  /\ rpc = "wait" => Len(waits) = Len(results) - 1
  /\ (rpc \in {"returned", "threw"} /\ maxRetries >= 1)
       => Len(waits) = Len(results) - 1
  /\ (rpc = "threw" /\ maxRetries = DefaultMaxRetries
        /\ retryDelay = DefaultRetryDelay) => waits = <<5000, 10000>>

\* C2 witness: the default configuration exhausted its three attempts
C2_Witness ==
  /\ maxRetries = DefaultMaxRetries
  /\ retryDelay = DefaultRetryDelay
  /\ rpc = "threw"
  /\ waits = <<5000, 10000>>

(***************************************************************************)
(* Properties of one run (Spec).                                           *)
(***************************************************************************)
StageOrder ==
  <<"populateRestakers", "populateValidators", "populateRewards",
    "updateStatistics">>

\* C3: a run executes the four stages strictly in the order delegations,
\* operators, rewards, statistics: the stages started so far are always a
\* prefix of that order (so none runs twice), the running stage is the last
\* one started, a stage is started only when the loop of the previous one is
\* over, and every fetch and every write to a collection is made by the
\* stage that owns it.
C3_StageOrder ==
  /\ [](/\ Len(started) <= Len(StageOrder)
        /\ \A i \in 1..Len(started) : started[i] = StageOrder[i]
        /\ (pc \notin {"idle", "connectDB", "exited"})
             => (started # <<>> /\ started[Len(started)] = pc)
        /\ completed => started = StageOrder)
  /\ [][/\ (Restaker' # Restaker) => pc = "populateRestakers"
        /\ (Validator' # Validator)
             => pc \in {"populateValidators", "updateStatistics"}
        /\ (Reward' # Reward) => pc = "populateRewards"
        /\ (rpc' # rpc) => pc \in {"populateRestakers", "populateValidators"}
        /\ (started # <<>> /\ Len(started') > Len(started))
             => (rpc = "idle" /\ step = "loop" /\ idx > Len(items))]_vars

\* C3 witness: a run went through all four stages and wrote all three
\* collections
C3_Witness ==
  /\ completed
  /\ started = StageOrder
  /\ Restaker # <<>>
  /\ Validator # <<>>
  /\ Reward # <<>>

\* C4: when the delegation fetch or the operator fetch has failed after its
\* retries, the run is aborted: the process exits with a non-zero code, no
\* further stage is started, nothing is written, and the run does not report
\* completion.
C4_FetchFailureAborts ==
  /\ [][(rpc = "threw")
          => /\ pc' = "exited"
             /\ fatal' = pc
             /\ started' = started
             /\ ~completed'
             /\ exitCode' # {} /\ 0 \notin exitCode'
             /\ <<Restaker, Validator, Reward>>' = <<Restaker, Validator, Reward>>]_vars
  /\ [](pc = "exited" /\ fatal \in {"populateRestakers", "populateValidators"}
          => /\ ~completed
             /\ exitCode # {} /\ 0 \notin exitCode
             /\ started[Len(started)] = fatal)
  /\ [][(pc = "exited") => pc' = "connectDB"]_vars

\* C4 witness: the operator fetch failed three times after the delegations
\* were written
C4_Witness ==
  /\ pc = "exited"
  /\ fatal = "populateValidators"
  /\ exitCode = {1}
  /\ Restaker # <<>>
  /\ Validator = <<>>
  /\ faults = DefaultMaxRetries

\* C5: in the loop of the rewards stage every wallet before the current one
\* has its outcome (saved, skipped or failed), whatever happened to the
\* wallets before it; the loop is left only for the statistics stage,
\* without a fatal error, and then every wallet has an outcome.
C5_WalletFaultIsolation ==
  /\ [](/\ (pc = "populateRewards" /\ step \in {"loop", "save"})
             => /\ Len(walletLog) = idx - 1
                /\ \A i \in 1..Len(walletLog) :
                     walletLog[i] = "saved" => items[i] \in DOMAIN Reward
        /\ (pc = "updateStatistics" /\ step = "fetch")
             => Len(walletLog) = Cardinality(DOMAIN Restaker))
  /\ [][(pc = "populateRewards" /\ step \in {"loop", "save"} /\ pc' # pc)
          => /\ pc' = "updateStatistics"
             /\ fatal' = "none"
             /\ exitCode' = {}]_vars

\* C5 witness: the first wallet failed, the second one was saved, and the
\* statistics stage has been entered
C5_Witness ==
  /\ pc = "updateStatistics"
  /\ step = "fetch"
  /\ walletLog = <<"failed", "saved">>

(***************************************************************************)
(* Properties of a run after a run (SpecRerun).                            *)
(***************************************************************************)
\* the SaveReward step that writes the record of a wallet that has one
UpsertsExistingReward ==
  /\ pc = "populateRewards"
  /\ step = "save"
  /\ walletLog' = Append(walletLog, "saved")
  /\ rewardData.walletAddress \in DOMAIN Reward

\* the second of two completed non-mock runs over the same upstream data
\* has ended
RerunEnded ==
  /\ prev.ok
  /\ pc = "exited"
  /\ completed
  /\ ~useMockData

\* the stages of the two runs that logged a per-record error
RerunErrors == prev.saveErrors \cup saveErrors

\* ... and neither run logged a failed write of a delegation or an operator
Rerun ==
  /\ RerunEnded
  /\ RerunErrors \cap {"populateRestakers", "populateValidators"} = {}

\* ... and neither run logged a failed wallet in the rewards stage, which
\* had data of the Rated API
RewardsRerun ==
  /\ RerunEnded
  /\ "populateRewards" \notin RerunErrors
  /\ upstream.rated # NoData

SansActivity(doc) == [f \in DOMAIN doc \ {"lastActivityTimestamp"} |-> doc[f]]

\* the operators the upstream data lists
ReportedOperators ==
  {upstream.validators.operators[i].id :
     i \in 1..Len(upstream.validators.operators)}

UpsertsExistingRestaker ==
  /\ pc = "populateRestakers"
  /\ step = "loop"
  /\ idx <= Len(items)
  /\ faults' = faults
  /\ items[idx].userAddress \in DOMAIN Restaker

\* the SaveValidator step that writes the record of an operator who has one
UpsertsExistingValidator ==
  /\ pc = "populateValidators"
  /\ step = "loop"
  /\ idx <= Len(items)
  /\ faults' = faults
  /\ items[idx].operatorAddress \in DOMAIN Validator

\* the document a $set of the incoming fields makes of a persisted one
Merged(old, incoming) ==
  [f \in DOMAIN old \cup DOMAIN incoming |->
     IF f \in DOMAIN incoming THEN incoming[f] ELSE old[f]]

StatsFinished == pc = "exited" /\ completed

\* every persisted operator's delegatorCount is the number of persisted
\* delegation records that target it
CountsExact ==
  \A o \in DOMAIN Validator :
    Validator[o].delegatorCount =
      Cardinality({u \in DOMAIN Restaker : Restaker[u].targetAVSOperatorAddress = o})

DecEq(x, y) == x.n * Pow10(y.k) = y.n * Pow10(x.k)

\* the amount string s is the numeral of exactly x + a
ExactSum(s, x, a) == IsDec(s) /\ DecEq(s, DecSum(x, a))

\* the last call of addReward resolved: the document was saved
RewardSaved == call.count > 0 /\ call.saved

\* C10: addReward(X, a, t) on a record that has a breakdown for X increases
\* that breakdown's amount by exactly a, appends t to its timestamps (one
\* event more), creates no second breakdown for X, leaves every other
\* breakdown unchanged and increases totalRewardsReceivedStETH by exactly a;
\* on a record without a breakdown for X it adds exactly one breakdown for
\* X, with amount a and timestamps [t].  (Amounts that are already inexact
\* before the call are not held to the exactness.)
C10_Original ==
  RewardSaved =>
    LET old == call.doc
        new == Reward[call.walletAddress]
        X == ToLowerCase(call.operatorAddress)
        olds == old.rewardsBreakdown
        news == new.rewardsBreakdown
        i == FindBreakdown(olds, X)
    IN  /\ Cardinality({j \in 1..Len(news) : news[j].operatorAddress = X}) = 1
        /\ IF i # 0
             THEN /\ Len(news) = Len(olds)
                  /\ \A j \in 1..Len(olds) : j # i => news[j] = olds[j]
                  /\ news[i].operatorAddress = X
                  /\ news[i].timestamps = Append(olds[i].timestamps, call.timestamp)
                  /\ IsDec(olds[i].amountStETH) =>
                       ExactSum(news[i].amountStETH, olds[i].amountStETH, call.amount)
                  /\ IsDec(old.totalRewardsReceivedStETH) =>
                       ExactSum(new.totalRewardsReceivedStETH,
                                old.totalRewardsReceivedStETH, call.amount)
             ELSE /\ Len(news) = Len(olds) + 1
                  /\ \A j \in 1..Len(olds) : news[j] = olds[j]
                  /\ news[Len(news)].operatorAddress = X
                  /\ news[Len(news)].amountStETH = call.amount
                  /\ news[Len(news)].timestamps = <<call.timestamp>>

\* 0.2 was added to a breakdown of 0.1 and the stored amount is not 0.3
C10_Witness ==
  /\ RewardSaved
  /\ call.amount = Dec(2, 1)
  /\ LET X == ToLowerCase(call.operatorAddress)
         i == FindBreakdown(call.doc.rewardsBreakdown, X)
         new == Reward[call.walletAddress]
     IN  /\ i # 0
         /\ call.doc.rewardsBreakdown[i].amountStETH = Dec(1, 1)
         /\ ~IsDec(new.rewardsBreakdown[i].amountStETH)
         /\ new.rewardsBreakdown[i].amountStETH.near = Dec(3, 1)
         /\ new.rewardsBreakdown[i].amountStETH.double # ToDouble(Dec(3, 1))

(***************************************************************************)
(* DataFetcher.fetchRewardsFromRated (SpecFetcher)                         *)
(***************************************************************************)
FetchedRewards == call.count > 0 /\ call.method = "fetchRewardsFromRated"

\* C11: when RATED_API_KEY is not set (or is empty), fetchRewardsFromRated
\* resolves with null for every address and has issued no request.
C11_NoKeyNoRequest ==
  FetchedRewards /\ ~TruthyString(call.apiKey)
    => call.result = Null /\ call.requests = <<>>

\* without a key nothing is asked although the first endpoint would answer
C11_Witness ==
  /\ FetchedRewards
  /\ call.apiKey = <<>>
  /\ HasBody(call.answers[1])
  /\ ~RatedTransformThrows(call.answers[1].data)
  /\ call.result = Null
  /\ call.requests = <<>>

\* the endpoints that answer with a body
WithBody(answers) == {i \in 1..Len(answers) : HasBody(answers[i])}

\* C12: with a key, the endpoints are requested in their order up to the
\* first that returns a body and no further, the result is the
\* normalization of that body, and null is the result only when no endpoint
\* returned a body.
C12_Original ==
  FetchedRewards /\ TruthyString(call.apiKey)
    => LET bodies == WithBody(call.answers)
           first == CHOOSE i \in bodies : \A j \in bodies : i <= j
       IN  IF bodies = {}
             THEN /\ call.result = Null
                  /\ Len(call.requests) = Len(endpoints)
             ELSE /\ Len(call.requests) = first
                  /\ call.result # Null
                  /\ ~RatedTransformThrows(call.answers[first].data)
                        => call.result =
                             transformRatedRewardsData(call.answers[first].data,
                                                       call.address)

\* the first endpoint returned a body with an amount that is no number: the
\* second endpoint was requested as well and its body is the result
C12_Witness ==
  /\ FetchedRewards
  /\ TruthyString(call.apiKey)
  /\ HasBody(call.answers[1])
  /\ RatedTransformThrows(call.answers[1].data)
  /\ HasBody(call.answers[2])
  /\ Len(call.requests) = 2
  /\ call.result = transformRatedRewardsData(call.answers[2].data, call.address)

(***************************************************************************)
(* populateRewards (Spec)                                                  *)
(***************************************************************************)
\* the first half of the try block is done for the current wallet
RewardDataReady == pc = "populateRewards" /\ step = "save"

\* C13: in the rewards stage, for each wallet: with useMockData,
\* fetchRewardsFromRated is not called and mock reward data is generated;
\* without it, fetchRewardsFromRated is called exactly once and mock reward
\* data is generated if and only if the call resolved with null.
C13_RewardSource ==
  RewardDataReady
    => IF useMockData
         THEN /\ fetched.client = 0
              /\ fetched.mock = 1
              /\ rewardData \in generateMockRewardsData(items[idx], clock)
         ELSE /\ fetched.client = 1
              /\ fetched.mock = (IF fetched.absent THEN 1 ELSE 0)
              /\ fetched.absent
                    <=> rewardData \in generateMockRewardsData(items[idx], clock)

\* the Rated API had nothing for the wallet and mock data took its place
C13_Witness ==
  /\ RewardDataReady
  /\ ~useMockData
  /\ fetched = [client |-> 1, absent |-> TRUE, mock |-> 1]
  /\ rewardData \in generateMockRewardsData(items[idx], clock)

\* C14: in the rewards stage a Reward document is written only when the
\* total of the wallet's reward data is strictly positive, and what is
\* written is that reward data; for a wallet whose reward data has total 0
\* the rewards collection stays as it is.
C14_PositiveTotalsOnly ==
  /\ [][(Reward' # Reward)
           => /\ RewardDataReady
              /\ rewardData # Null
              /\ IsPositive(rewardData.totalRewardsReceivedStETH)
              /\ Reward' = RewardUpsert(Reward, rewardData, clock)]_vars
  /\ [](\A w \in DOMAIN Reward : IsPositive(Reward[w].totalRewardsReceivedStETH))

\* a wallet with total 0 was passed over and has no document, another
\* wallet of the same run has one
C14_Witness ==
  /\ pc = "populateRewards"
  /\ \E i, j \in 1..Len(walletLog) :
       /\ walletLog[i] = "skipped"
       /\ items[i] \notin DOMAIN Reward
       /\ walletLog[j] = "saved"
       /\ items[j] \in DOMAIN Reward

(***************************************************************************)
(* The transform methods (SpecFetcher)                                     *)
(***************************************************************************)
Transformed(method) == call.count > 0 /\ call.method = method

\* the events of a batch whose shares are a number, in their order
WellFormed(events) ==
  LET Good(event) == IsWei(event.shares) IN SelectSeq(events, Good)

\* C15: transformRestakingData, given delegation events some of which have
\* shares that are no number, emits exactly one record for each well-formed
\* event, in input order and before any staker record, emits nothing for a
\* malformed event, and no exception comes out of the delegation events.
C15_DelegationFaultIsolation ==
  Transformed("transformRestakingData")
    => LET good == WellFormed(call.data.delegations)
           records == [i \in 1..Len(good) |-> DelegationRecord(good[i])]
       IN  /\ call.data.stakers = <<>> => ~call.threw /\ call.result = records
           /\ ~call.threw
                 => /\ Len(call.result) >= Len(good)
                    /\ SubSeq(call.result, 1, Len(good)) = records

\* of two events the first is malformed: the second alone is emitted
C15_Witness ==
  /\ Transformed("transformRestakingData")
  /\ call.data.stakers = <<>>
  /\ Len(call.data.delegations) = 2
  /\ ~IsWei(call.data.delegations[1].shares)
  /\ IsWei(call.data.delegations[2].shares)
  /\ ~call.threw
  /\ call.result = <<DelegationRecord(call.data.delegations[2])>>

\* the number of items of a batch that satisfy Good
CountOf(batch, Good(_)) == Cardinality({i \in 1..Len(batch) : Good(batch[i])})

\* the deposits of the stakers of a batch, in one sequence
DepositsOf(stakers) ==
  Concat([i \in 1..Len(stakers) |->
            IF "deposits" \in DOMAIN stakers[i] THEN stakers[i].deposits ELSE <<>>])

\* C16: every transform method skips a malformed item and goes on:
\* transformValidatorData with a malformed slashing or operator item,
\* transformRestakingData with a malformed staker item and
\* transformRatedRewardsData with a malformed reward item do not throw and
\* return the records of all the remaining items.
C16_Original ==
  /\ Transformed("transformValidatorData")
       => LET GoodOperator(operator) == IsWei(operator.totalShares)
              GoodSlashing(slash) == IsWei(slash.amount)
          IN  /\ ~call.threw
              /\ Len(call.result) = CountOf(call.data.operators, GoodOperator)
              /\ \A i \in 1..Len(call.result) :
                   Len(call.result[i].slashHistory) =
                     LET Mine(slash) ==
                           /\ GoodSlashing(slash)
                           /\ slash.operator = call.result[i].operatorAddress
                     IN  CountOf(call.data.slashings, Mine)
  /\ Transformed("transformRestakingData")
       => LET GoodShares(item) == IsWei(item.shares)
          IN  /\ ~call.threw
              /\ Len(call.result) =
                   CountOf(call.data.delegations, GoodShares)
                     + CountOf(DepositsOf(call.data.stakers), GoodShares)
  /\ Transformed("transformRatedRewardsData")
       => LET GoodReward(reward) == IsWei(reward.amount)
          IN  /\ ~call.threw
              /\ Len(call.result.rewardsBreakdown) =
                   CountOf(RewardsOf(call.data), GoodReward)

\* of two reward items the first has an amount that is no number:
\* transformRatedRewardsData throws and the second item is lost with it
C16_Witness ==
  /\ Transformed("transformRatedRewardsData")
  /\ Len(RewardsOf(call.data)) = 2
  /\ ~IsWei(call.data.rewards[1].amount)
  /\ IsWei(call.data.rewards[2].amount)
  /\ call.threw

(***************************************************************************)
(* The signal handlers (SpecSignal)                                        *)
(***************************************************************************)
\* the process was ended by a signal handler: exit code 0 without the
\* completion of runFullUpdate
SignalExit == pc = "exited" /\ exitCode = {0} /\ ~completed

\* the stage the run was in
CurrentStage == IF started = <<>> THEN "connectDB" ELSE started[Len(started)]

\* a request to the subgraph is awaited
PendingRequest == rpc = "call"

\* a write to the store is awaited: the findOneAndUpdate of the current
\* item or wallet
PendingWrite ==
  \/ /\ CurrentStage \in {"populateRestakers", "populateValidators"}
     /\ step = "loop"
     /\ idx <= Len(items)
  \/ /\ CurrentStage = "populateRewards"
     /\ step = "save"
     /\ ShouldSaveReward(rewardData)

\* C17: when SIGINT or SIGTERM arrives during a run, the pending request or
\* write of the current stage completes before the process exits: no
\* process ended by a signal leaves a request or a write pending.
C17_Original == SignalExit => ~PendingRequest /\ ~PendingWrite

\* the process ended on a signal while the write of the second restaker was
\* awaited: the first restaker is stored, the second is not
C17_Witness ==
  /\ SignalExit
  /\ CurrentStage = "populateRestakers"
  /\ PendingWrite
  /\ idx = 2
  /\ items[1].userAddress \in DOMAIN Restaker
  /\ items[2].userAddress \notin DOMAIN Restaker

(***************************************************************************)
(* The calculated fields of a Reward document                              *)
(***************************************************************************)
\* the least and the greatest of a non-empty sequence of timestamps
MinOf(ts) == CHOOSE t \in {ts[i] : i \in 1..Len(ts)} : \A i \in 1..Len(ts) : t <= ts[i]
MaxOf(ts) == CHOOSE t \in {ts[i] : i \in 1..Len(ts)} : \A i \in 1..Len(ts) : t >= ts[i]

\* totalRewardEvents, firstRewardTimestamp and lastRewardTimestamp of doc are
\* what its breakdowns give
DerivedConsistent(doc) ==
  LET all == AllTimestamps(doc.rewardsBreakdown)
  IN  /\ doc.totalRewardEvents = Len(all)
      /\ all # <<>>
           => /\ doc.firstRewardTimestamp = DateOfSeconds(MinOf(all))
              /\ doc.lastRewardTimestamp = DateOfSeconds(MaxOf(all))

\* C18: after every write of a Reward document to the store, the upsert of
\* the rewards stage included, totalRewardEvents is the sum of the lengths
\* of the breakdowns' timestamps and firstRewardTimestamp and
\* lastRewardTimestamp are the least and the greatest of those timestamps.
C18_Original == \A w \in DOMAIN Reward : DerivedConsistent(Reward[w])

\* the rewards stage wrote a document with one reward event from the Rated
\* API: its totalRewardEvents is 0 and its firstRewardTimestamp is null
C18_Witness ==
  /\ pc = "populateRewards"
  /\ ~useMockData
  /\ \E w \in DOMAIN Reward :
       /\ Len(AllTimestamps(Reward[w].rewardsBreakdown)) = 1
       /\ Reward[w].totalRewardEvents = 0
       /\ Reward[w].firstRewardTimestamp = Null
       /\ Reward[w].lastRewardTimestamp = Null

(***************************************************************************)
(* rewardsBreakdown as a mapping (SpecFetcher)                             *)
(***************************************************************************)
\* no two entries of rewardsBreakdown have the same operatorAddress
OnePerOperator(rewardsBreakdown) ==
  \A i, j \in 1..Len(rewardsBreakdown) :
    rewardsBreakdown[i].operatorAddress = rewardsBreakdown[j].operatorAddress
      => i = j

\* C19: in the reward data that transformRatedRewardsData returns and in
\* the reward data that generateMockRewardsData returns, no two entries of
\* rewardsBreakdown have the same operatorAddress: reward items of one
\* operator are folded into one entry.
C19_Original ==
  /\ Transformed("transformRatedRewardsData") /\ ~call.threw
       => OnePerOperator(call.result.rewardsBreakdown)
  /\ Transformed("generateMockRewardsData")
       => OnePerOperator(call.result.rewardsBreakdown)

\* two reward items of one operator came back as two entries of that
\* operator
C19_Witness ==
  /\ Transformed("transformRatedRewardsData")
  /\ ~call.threw
  /\ Len(RewardsOf(call.data)) = 2
  /\ call.data.rewards[1].operator = call.data.rewards[2].operator
  /\ Len(call.result.rewardsBreakdown) = 2
  /\ call.result.rewardsBreakdown[1].operatorAddress =
       call.result.rewardsBreakdown[2].operatorAddress

(***************************************************************************)
(* toWei and fromWei (SpecFetcher)                                         *)
(***************************************************************************)
\* r is d without the trailing zeros of its fraction: the same digits, the
\* same place of the decimal point
Normalized(r, d) ==
  /\ r.k <= d.k
  /\ r.k = 0 \/ r.n % 10 # 0
  /\ IF d.n = 0 THEN r.n = 0 ELSE r.n * Pow10(d.k - r.k) = d.n

C21_Original ==
  \A o \in DOMAIN Validator :
    Validator[o].delegatorCount = CountDelegators(Restaker, o)

\* C21 witness: the restakers stage of a later run has moved a delegation
\* and the operators still carry the counts of the run before
C21_Witness ==
  /\ runs > 1
  /\ pc = "populateRestakers"
  /\ \E o \in DOMAIN Validator :
       Validator[o].delegatorCount > CountDelegators(Restaker, o)

(***************************************************************************)
(* transformValidatorData (SpecFetcher)                                    *)
(***************************************************************************)
\* the slashings of the payload that name the operator, in payload order
NamedSlashings(data, operatorAddress) ==
  SelectSeq(data.slashings, LAMBDA slash : slash.operator = operatorAddress)

\* history is made of the events evs, one entry each, in the same order
SameEvents(history, evs) ==
  /\ Len(history) = Len(evs)
  /\ \A j \in 1..Len(evs) :
       /\ history[j].timestamp = evs[j].createdAt
       /\ history[j].amountStETH = FromWei(evs[j].amount)
       /\ history[j].transactionHash = evs[j].transactionHash
       /\ history[j].blockNumber = evs[j].blockNumber

\* C22: every operator record that transformValidatorData emits has status
\* "slashed" exactly when a slashing of the payload names its operator and
\* "active" otherwise, carries exactly that operator's slashings in payload
\* order as slashHistory, and has delegatorCount 0.
C22_OperatorNormalization ==
  (Transformed("transformValidatorData") /\ ~call.threw) =>
    \A i \in 1..Len(call.result) :
      LET r == call.result[i]
          evs == NamedSlashings(call.data, r.operatorAddress)
      IN  /\ r.status = (IF Len(evs) > 0 THEN "slashed" ELSE "active")
          /\ SameEvents(r.slashHistory, evs)
          /\ r.delegatorCount = 0

\* C22 witness: two operators, two different slashings that both name the
\* first: it is slashed with both events in payload order, the second is
\* active with an empty history
C22_Witness ==
  /\ Transformed("transformValidatorData")
  /\ ~call.threw
  /\ Len(call.result) = 2
  /\ Len(call.data.slashings) = 2
  /\ call.data.slashings[1].amount = Wei(2, 18)
  /\ call.data.slashings[2].amount = Wei(1, 18)
  /\ call.result[1].status = "slashed"
  /\ Len(call.result[1].slashHistory) = 2
  /\ call.result[1].slashHistory[1].amountStETH = Dec(2, 0)
  /\ call.result[1].slashHistory[2].amountStETH = Dec(1, 0)
  /\ call.result[2].status = "active"
  /\ call.result[2].slashHistory = <<>>
  /\ call.result[2].delegatorCount = 0

(***************************************************************************)
(* addSlashEvent (SpecSlash)                                               *)
(***************************************************************************)
\* the last call of addSlashEvent
Slashed == call.count > 0 /\ call.method = "addSlashEvent"

\* C23: addSlashEvent appends exactly one event, made of the slash data, to
\* the operator's slashHistory and keeps the events that were there in
\* their order; the status becomes "slashed" when it was "active" and stays
\* what it was otherwise; a resolved save() stores that document and a
\* rejected one leaves the store as it was.
C23_AddSlashEvent ==
  Slashed =>
    LET before == call.doc
        after == call.after
    IN  /\ Len(after.slashHistory) = Len(before.slashHistory) + 1
        /\ SubSeq(after.slashHistory, 1, Len(before.slashHistory)) = before.slashHistory
        /\ \A f \in DOMAIN after.slashHistory[Len(after.slashHistory)] :
             after.slashHistory[Len(after.slashHistory)][f] = call.slashData[f]
        /\ (after.status # before.status) <=> (before.status = "active")
        /\ before.status = "active" => after.status = "slashed"
        /\ IF call.saved
             THEN /\ Validator[call.operatorAddress].slashHistory = after.slashHistory
                  /\ Validator[call.operatorAddress].status = after.status
             ELSE Validator = call.stored

\* C23 witness: a second event stored on a jailed operator that had one:
\* two events, the older first, still jailed
C23_Witness ==
  /\ Slashed
  /\ call.saved
  /\ call.doc.status = "jailed"
  /\ Len(call.doc.slashHistory) = 1
  /\ Validator[call.operatorAddress].status = "jailed"
  /\ Len(Validator[call.operatorAddress].slashHistory) = 2
  /\ Validator[call.operatorAddress].slashHistory[1] = call.doc.slashHistory[1]
  /\ Validator[call.operatorAddress].slashHistory[2].timestamp = 1810

(***************************************************************************)
(* The format of the persisted delegation records (Spec)                   *)
(***************************************************************************)
\* a lowercase 0x-prefixed string of 40 hexadecimal digits
IsLowercaseAddress(v) ==
  /\ IsHex(v, 40)
  /\ \A i \in 3..42 : SubSeq(v, i, i) \notin {"A", "B", "C", "D", "E", "F"}

\* the record has the format restakerSchema asks for
WellFormedRestaker(doc) ==
  /\ IsLowercaseAddress(doc.userAddress)
  /\ IsLowercaseAddress(doc.targetAVSOperatorAddress)
  /\ "transactionHash" \in DOMAIN doc => IsHex(doc.transactionHash, 64)

\* C24 as stated: in mock mode as in real mode every persisted delegation
\* record has a lowercase 40-hex-digit userAddress and
\* targetAVSOperatorAddress and, when it has one, a 64-hex-digit
\* transactionHash; no other record is ever written.
C24_Original ==
  \A u \in DOMAIN Restaker : WellFormedRestaker(Restaker[u])

\* C24 witness: a completed run in mock mode has stored a delegation record
\* whose userAddress has 13 hexadecimal digits and whose transactionHash
\* has 6
C24_Witness ==
  /\ pc = "exited"
  /\ completed
  /\ useMockData
  /\ \E u \in DOMAIN Restaker :
       /\ Restaker[u].userAddress = u
       /\ Len(u) < 42
       /\ Len(Restaker[u].transactionHash) < 66
       /\ IsLowercaseAddress(Restaker[u].targetAVSOperatorAddress)

(***************************************************************************)
(* Termination of a run (SpecLive)                                         *)
(***************************************************************************)
\* the four stages were entered in order and the last one returned
Done ==
  /\ completed
  /\ started = <<"populateRestakers", "populateValidators", "populateRewards",
                 "updateStatistics">>

\* the process exited with a code that is not 0
Failed == exitCode # {} /\ 0 \notin exitCode

\* C25: when every request and every store operation settles, a full run
\* ends, and it ends either Done (the four stages finished) or Failed (exit
\* code not 0), never both and never neither; no fetch goes beyond attempt
\* maxRetries and the run does not stay in the fetch of a stage.
C25_RunTerminates ==
  /\ [](pc = "exited" => (Done /\ ~Failed) \/ (Failed /\ ~Done))
  /\ [](attempt <= maxRetries)
  /\ <>[](pc = "exited")
  /\ \A s \in {"populateRestakers", "populateValidators"} :
       (pc = s /\ step = "fetch") ~> ~(pc = s /\ step = "fetch")

\* C25 witness: the delegation fetch failed maxRetries times and the run
\* ended Failed in its first stage
C25_Witness ==
  /\ pc = "exited"
  /\ Failed
  /\ ~Done
  /\ fatal = "populateRestakers"
  /\ started = <<"populateRestakers">>
  /\ faults = DefaultMaxRetries

(***************************************************************************)
(* A failure in updateStatistics (SpecRerun)                               *)
(***************************************************************************)
\* the step in which an operation of updateStatistics fails
StatsFails == pc = "updateStatistics" /\ ~statsError /\ statsError'

\* C26: a failing operation of updateStatistics is caught by the method:
\* the step writes nothing, so every operator keeps the delegatorCount it
\* had, the run ends there as completed with exit code 0 and no fatal
\* error, and a run that ended after such a failure is a completed one.
C26_StatsFailureContained ==
  /\ [][StatsFails =>
          /\ Validator' = Validator
          /\ pc' = "exited"
          /\ completed'
          /\ exitCode' = {0}
          /\ fatal' = "none"]_vars
  /\ []((pc = "exited" /\ statsError) =>
          (completed /\ exitCode = {0} /\ fatal = "none"))

\* C26 witness: the save of a recount failed in a second run; the run
\* completed with exit code 0 and the operator still has its old count
C26_Witness ==
  /\ runs = 2
  /\ pc = "exited"
  /\ statsError
  /\ completed
  /\ exitCode = {0}
  /\ \E o \in DOMAIN Validator :
       Validator[o].delegatorCount # CountDelegators(Restaker, o)

(***************************************************************************)
(* The store after a failed fetch (SpecAbort)                              *)
(***************************************************************************)
\* a stage that fetches is at its fetch
Fetching == pc \in {"populateRestakers", "populateValidators"} /\ step = "fetch"

\* C27: from the start of a run to the end of the fetch of its first stage
\* no collection is written, and from the start of the operators stage to
\* the end of its fetch none is either, the step of the failing catch
\* included; the restakers stage writes delegations only.  So a run that
\* a failed delegation fetch ended has changed no collection, and a run
\* that a failed operator fetch ended has kept the delegations it wrote
\* and has changed no operator and no reward record.
C27_FetchFailureFrame ==
  /\ [][(Fetching \/ pc \in {"idle", "exited", "connectDB"})
          => <<Restaker, Validator, Reward>>' = <<Restaker, Validator, Reward>>]_vars
  /\ [][pc = "populateRestakers"
          => <<Validator, Reward>>' = <<Validator, Reward>>]_vars
  /\ []((prev.ok /\ pc = "exited" /\ fatal = "populateRestakers")
          => /\ Restaker = prev.Restaker
             /\ Validator = prev.Validator
             /\ Reward = prev.Reward)
  /\ []((prev.ok /\ pc = "exited" /\ fatal = "populateValidators")
          => /\ Validator = prev.Validator
             /\ Reward = prev.Reward)

\* C27 witness: a run in mock mode filled the store; the next run, in real
\* mode, wrote the two delegations of the subgraph and then its operator
\* fetch failed maxRetries times: the delegations are there, the operators
\* are those of the first run
C27_Witness ==
  /\ runs = 2
  /\ pc = "exited"
  /\ fatal = "populateValidators"
  /\ exitCode = {FatalExitCode}
  /\ Users \subseteq DOMAIN Restaker
  /\ DOMAIN Restaker \cap MockUserAddresses # {}
  /\ DOMAIN Validator = MockOperatorAddresses
  /\ Reward # <<>>

\* C27 witness of the other case: the delegation fetch of a second run in
\* real mode failed maxRetries times and the store is that of the first run
C27_RestakersWitness ==
  /\ runs = 2
  /\ prev.ok
  /\ pc = "exited"
  /\ fatal = "populateRestakers"
  /\ Restaker = prev.Restaker /\ Restaker # <<>>
  /\ Validator = prev.Validator /\ Validator # <<>>
  /\ Reward = prev.Reward /\ Reward # <<>>

(***************************************************************************)
(* One record per key; the last record of a user wins (SpecRerun)          *)
(***************************************************************************)
\* every record is stored under its own key: no key has two records
OnePerKey ==
  /\ \A u \in DOMAIN Restaker : Restaker[u].userAddress = u
  /\ \A o \in DOMAIN Validator : Validator[o].operatorAddress = o
  /\ \A w \in DOMAIN Reward : Reward[w].walletAddress = w

\* the loop of populateRestakers has gone through the whole batch
RestakersWritten ==
  pc = "populateRestakers" /\ step = "loop" /\ idx > Len(items)

\* record i is the last of the batch with its userAddress
IsLastOfUser(i) ==
  \A j \in (i + 1)..Len(items) : items[j].userAddress # items[i].userAddress

\* the stored record of every user of the batch has the fields of the
\* user's last record in the batch
LastRecordStored ==
  \A i \in 1..Len(items) :
    IsLastOfUser(i) =>
      /\ items[i].userAddress \in DOMAIN Restaker
      /\ \A f \in DOMAIN items[i] :
           Restaker[items[i].userAddress][f] = items[i][f]

ZeroRated ==
  /\ upstream.rated # NoData
  /\ \A i \in 1..Len(upstream.rated.rewards) : upstream.rated.rewards[i].amount.n = 0

\* C29: without useMockData, for a wallet whose Rated payload has no reward
\* item or only amounts of 0, the rewards stage takes the result of the
\* client, generates no mock data, and its next step writes nothing: the
\* rewards collection, and with it a record the wallet already has, stays
\* as it is and the wallet is passed over.
C29_EmptyPayloadSkipped ==
  /\ []((RewardDataReady /\ ~useMockData /\ ZeroRated)
          => /\ fetched = [client |-> 1, absent |-> FALSE, mock |-> 0]
             /\ rewardData # Null
             /\ rewardData.walletAddress = items[idx])
  /\ [][(RewardDataReady /\ ~useMockData /\ ZeroRated)
          => /\ Reward' = Reward
             /\ walletLog' = Append(walletLog, "skipped")
             /\ idx' = idx + 1]_vars

\* C29 witness: a wallet that has a record from a run in mock mode was
\* passed over by a second run, in real mode, whose Rated payload is empty
C29_Witness ==
  /\ runs = 2
  /\ pc = "populateRewards"
  /\ step = "loop"
  /\ ~useMockData
  /\ ZeroRated
  /\ idx > 1
  /\ Len(walletLog) = idx - 1
  /\ walletLog[idx - 1] = "skipped"
  /\ items[idx - 1] \in DOMAIN Reward

(***************************************************************************)
(* The totals of a record over addReward calls (SpecReward)                *)
(***************************************************************************)
\* every amount of the breakdowns is a decimal numeral
DecimalAmounts30(rewardsBreakdown) ==
  \A i \in 1..Len(rewardsBreakdown) : IsDec(rewardsBreakdown[i].amountStETH)

\* the sum of the amounts of the breakdowns, as a decimal
RECURSIVE SumOfAmounts(_)
SumOfAmounts(rewardsBreakdown) ==
  IF rewardsBreakdown = <<>> THEN Dec(0, 0)
  ELSE DecSum(Head(rewardsBreakdown).amountStETH,
              SumOfAmounts(Tail(rewardsBreakdown)))

\* totalRewardsReceivedStETH is the sum of the amounts of the breakdowns; a
\* record with an amount that is no decimal numeral of the model is judged
\* only when it has a single breakdown (the same string or not)
TotalIsSum(doc) ==
  IF DecimalAmounts30(doc.rewardsBreakdown)
    THEN /\ IsDec(doc.totalRewardsReceivedStETH)
         /\ DecEq(doc.totalRewardsReceivedStETH, SumOfAmounts(doc.rewardsBreakdown))
    ELSE Len(doc.rewardsBreakdown) = 1
           => doc.totalRewardsReceivedStETH = doc.rewardsBreakdown[1].amountStETH

\* no breakdown has more transaction hashes or block numbers than timestamps
ReferencesWithinEvents(doc) ==
  \A i \in 1..Len(doc.rewardsBreakdown) :
    /\ Len(doc.rewardsBreakdown[i].transactionHashes)
         <= Len(doc.rewardsBreakdown[i].timestamps)
    /\ Len(doc.rewardsBreakdown[i].blockNumbers)
         <= Len(doc.rewardsBreakdown[i].timestamps)

\* C30 as stated: a saved addReward on a record whose total is the sum of
\* its breakdown amounts leaves the total equal to that sum, raises
\* totalRewardEvents by one, and leaves no breakdown with more transaction
\* hashes or block numbers than timestamps.
C30_Original ==
  RewardSaved =>
    LET old == call.doc
        new == Reward[call.walletAddress]
    IN  /\ (DecimalAmounts30(old.rewardsBreakdown) /\ TotalIsSum(old)) => TotalIsSum(new)
        /\ new.totalRewardEvents = old.totalRewardEvents + 1
        /\ ReferencesWithinEvents(old) => ReferencesWithinEvents(new)

\* C30 witness: the record had total 0.1 for one breakdown of 0.1; a reward
\* of 0.2 of another operator was added and saved: the breakdowns are 0.1
\* and 0.2, the total is not the numeral of 0.3, and totalRewardEvents went
\* from 0 to 2
C30_Witness ==
  /\ RewardSaved
  /\ call.count = 1
  /\ call.doc.totalRewardsReceivedStETH = Dec(1, 1)
  /\ call.doc.totalRewardEvents = 0
  /\ call.amount = Dec(2, 1)
  /\ LET new == Reward[call.walletAddress]
     IN  /\ Len(new.rewardsBreakdown) = 2
         /\ new.rewardsBreakdown[1].amountStETH = Dec(1, 1)
         /\ new.rewardsBreakdown[2].amountStETH = Dec(2, 1)
         /\ ~IsDec(new.totalRewardsReceivedStETH)
         /\ new.totalRewardEvents = 2
         /\ ReferencesWithinEvents(new)

\* each part of C30 on its own
C30_TotalPart ==
  RewardSaved =>
    ((DecimalAmounts30(call.doc.rewardsBreakdown) /\ TotalIsSum(call.doc))
       => TotalIsSum(Reward[call.walletAddress]))

C30_EventsPart ==
  RewardSaved =>
    Reward[call.walletAddress].totalRewardEvents = call.doc.totalRewardEvents + 1

C30_ReferencesPart ==
  RewardSaved =>
    (ReferencesWithinEvents(call.doc)
       => ReferencesWithinEvents(Reward[call.walletAddress]))

====
